---- MODULE Spec2Model ----
(***************************************************************************)
(* YBS journey planner: the Route Index (js/routeIndex.js), the Stop       *)
(* Matcher and the Path Finder (pathfinder.js / stopMatcher.js) as one      *)
(* state machine.                                                          *)
(*                                                                         *)
(* Conventions of the translation                                          *)
(*  - identifiers (stop ids, route keys) are strings; the falsy values of   *)
(*    JavaScript (null, undefined, "") are all written "".                 *)
(*  - a JavaScript Map / Set is kept with its insertion order: a Set is a   *)
(*    sequence without duplicates, a Map a function whose values are such   *)
(*    sequences where the iteration order of the value is observable.       *)
(*  - a text (a stop name, a query) is a sequence of one-character strings, *)
(*    <<>> standing for a missing one; a stop record carries the fields the *)
(*    matcher and the path finder read: id, name_en, name_mm, road_en, lat. *)
(*    StopMatcher.stops, which only getAllStops and getStats read, is left  *)
(*    out.                                                                 *)
(*    The stop catalogs place all stops on one meridian, one grid step      *)
(*    apart per unit of lat, the grid step being the arc for which the      *)
(*    haversine distance times 1.2 is 1.00 km; distances are integers in    *)
(*    hundredths of a kilometre (the value after toFixed(2)).               *)
(*  - scores are integers in thousandths (the value after toFixed(3)).      *)
(***************************************************************************)
EXTENDS Integers, Sequences, FiniteSets, TLC

VARIABLES
    \* RouteIndex (js/routeIndex.js:16-21)
    stopToRoutes,     \* stopId -> Set<routeKey>, as a function to sequences
    routeData,        \* routeKey -> route object
    transferHubs,     \* Set of stop ids with 3+ routes
    riInitialized,    \* RouteIndex.isInitialized
    lastRoutes,       \* history: the argument of the last initialize()
    riSource,         \* history: "none" | "initialize" | "import", the last load
    \* StopMatcher (part_000:399-404)
    idToStop,         \* stopId -> stop object
    nameToIds,        \* normalized name -> stopId[], in insertion order of the names
    smInitialized,    \* StopMatcher.isInitialized
    lastStops,        \* history: the argument of StopMatcher.initialize
    smCall,           \* history: the last findStopId / search call since the load
    \* PathFinder.findAllPaths: arguments, locals and position
    pc,               \* "idle" | "loop" | "done"
    fromStopId, toStopId, maxTransfers, maxPaths, maxDistance,
    options,          \* history: the options argument as the caller passed it
    queue, visited, paths, iterations,
    outcome,          \* "none" | "returned" | "raised"
    result,           \* the returned list
    timedOut,         \* history: the timeout branch was taken in this call
    dequeued,         \* history: number of queue.shift() calls of this call
    reaches,          \* history: per visit key, the states that reached it
    firstCall         \* history: outcome, result and timedOut of the first call

riVars == <<stopToRoutes, routeData, transferHubs, riInitialized, lastRoutes, riSource>>
smVars == <<idToStop, nameToIds, smInitialized, lastStops, smCall>>
argVars == <<fromStopId, toStopId, maxTransfers, maxPaths, maxDistance, options>>
runVars == <<queue, visited, paths, iterations, outcome, result, timedOut, dequeued,
             reaches>>
histVars == <<firstCall>>

VARIABLES
    \* Autocomplete (part_001:30-34) and the input element and timers it uses
    selectedIndex,    \* index of the highlighted suggestion, -1 for none
    suggestions,      \* the results of the last search that found stops
    debounceTimer,    \* the id setTimeout returned last, 0 for null
    isOpen,           \* the dropdown is displayed
    inputValue,       \* input.value
    items,            \* number of .autocomplete-item elements in the dropdown
    timers,           \* the pending debounce timeouts: [id, query]
    timerIds,         \* number of debounce timeouts created so far
    blurTimers,       \* number of pending close timeouts of onBlur
    lastInput,        \* history: the trimmed value of the last input event
    lastSearch,       \* history: the last search a timeout executed
    settled,          \* history: selectStop or clear ran, no input or focus since
    acRaised,         \* history: a handler of the widget raised
    \* JourneyUI (js/journeyUI.js:33)
    currentPaths,     \* JourneyUI.currentPaths
    container,        \* what the container shows: "blank" | "cards" | "noResults"
    uiCall            \* history: the last renderPaths or clear call

acVars == <<selectedIndex, suggestions, debounceTimer, isOpen, inputValue, items,
            timers, timerIds, blurTimers, lastInput, lastSearch, settled, acRaised>>
uiVars == <<currentPaths, container, uiCall>>
viewVars == <<acVars, uiVars>>
vars == <<riVars, smVars, pc, argVars, runVars, histVars, viewVars>>

-----------------------------------------------------------------------------
(* Bounds of the model *)

\* longest routes array handed to RouteIndex.initialize
MaxRoutes == 3
\* largest maxTransfers option a caller passes
MaxTransfersOpt == 2
\* the dense catalog: HubRoutes loop lines, each through the same HubStops stops
HubRoutes == 22
HubStops == 21
\* iterations of the search loop taken as one step over the dense catalog
RunLength == 2500
\* most records in a stopsData handed to StopMatcher.initialize by name lookups
MaxStops == 3
\* largest limit passed to StopMatcher.search
MaxLimit == 3

-----------------------------------------------------------------------------
(* Generic helpers for insertion-ordered collections *)

Range(s) == {s[i] : i \in 1..Len(s)}

Contains(s, x) == \E i \in 1..Len(s) : s[i] = x

\* Set.prototype.add on an insertion-ordered set
SetAdd(s, x) == IF Contains(s, x) THEN s ELSE Append(s, x)

\* Array.prototype.findIndex(id => String(id) === String(x)), 0-based; -1 if none
FindIndex(s, x) ==
    IF Contains(s, x)
    THEN (CHOOSE i \in 1..Len(s) : s[i] = x /\ \A j \in 1..(i - 1) : s[j] # x) - 1
    ELSE -1

RECURSIVE SeqSum(_)
SeqSum(s) == IF s = <<>> THEN 0 ELSE Head(s) + SeqSum(Tail(s))

RECURSIVE SeqMax(_, _)
\* Math.max(...s, floor)
SeqMax(s, floor) ==
    IF s = <<>> THEN floor
    ELSE LET m == SeqMax(Tail(s), floor) IN IF Head(s) > m THEN Head(s) ELSE m

\* Array.prototype.slice(start, end) for 0-based start and end, start possibly
\* negative (counted from the end of the array)
JsSlice(s, start, end) ==
    LET from == IF start < 0 THEN (IF Len(s) + start < 0 THEN 0 ELSE Len(s) + start)
                ELSE start
        to   == IF end < 0 THEN (IF Len(s) + end < 0 THEN 0 ELSE Len(s) + end)
                ELSE IF end > Len(s) THEN Len(s) ELSE end
    IN  SubSeq(s, from + 1, to)

Abs(x) == IF x < 0 THEN -x ELSE x

-----------------------------------------------------------------------------
(* Inputs: stop catalogs, route records, cached snapshots *)

\* a stop identifier that no stop catalog holds (routes may still name it)
GhostStop == "9"

StopIds == {"1", "2", "3", "4", "5"}

\* every identifier a caller may pass; "" stands for a missing identifier
QueryIds == {"1", "3", "5", GhostStop, ""}

\* latitude of a stop, in grid steps
LatOf(id) ==
    CASE id = "2" -> 5
      [] id = "4" -> 1
      [] id = "5" -> 1
      [] OTHER    -> 0

StopRecord(id) ==
    [id |-> id, name_en |-> <<"S", "t", "o", "p">>, name_mm |-> <<>>, road_en |-> <<>>,
     lat |-> LatOf(id)]

\* stopsData arguments of StopMatcher.initialize, as Object.entries lists
\* them: the full catalog, and one that lacks stop 4 and holds a record for
\* stop 3 without an English name
StopCatalogs ==
    { << <<"1", StopRecord("1")>>, <<"2", StopRecord("2")>>, <<"3", StopRecord("3")>>,
         <<"4", StopRecord("4")>>, <<"5", StopRecord("5")>> >>,
      << <<"1", StopRecord("1")>>, <<"2", StopRecord("2")>>,
         <<"3", [StopRecord("3") EXCEPT !.name_en = <<>>]>>, <<"5", StopRecord("5")>> >> }

NamedStop(id, en, mm, road) ==
    [id |-> id, name_en |-> en, name_mm |-> mm, road_en |-> road, lat |-> 0]

\* the records name lookups are run on, in the order of Object.entries:
\* "Ab Cd" on road "Main"; "ab-cd"; "-" on road "Main"; a record without an
\* English name (Myanmar name "ab", road "Main"); "abcd (x)"; "AB" with the
\* Myanmar name "cd"
AllNamedStops ==
    << <<"1", NamedStop("1", <<"A", "b", " ", "C", "d">>, <<>>, <<"M", "a", "i", "n">>)>>,
       <<"2", NamedStop("2", <<"a", "b", "-", "c", "d">>, <<>>, <<>>)>>,
       <<"3", NamedStop("3", <<"-">>, <<>>, <<"M", "a", "i", "n">>)>>,
       <<"4", NamedStop("4", <<>>, <<"a", "b">>, <<"M", "a", "i", "n">>)>>,
       <<"5", NamedStop("5", <<"a", "b", "c", "d", " ", "(", "x", ")">>, <<>>, <<>>)>>,
       <<"6", NamedStop("6", <<"A", "B">>, <<"c", "d">>, <<>>)>> >>

\* the query arguments of findStopId and search
Queries ==
    { <<>>, <<"-">>, <<"a", "b">>, <<" ", "A", "B", "\t">>, <<"b">>, <<"c", "d">>,
      <<"a", "b", "c", "d">>, <<"a", "b", " ", "c", "d">>, <<"a", "b", "c", "d", " ", "x">>,
      <<"M", "a", "i", "n", ".">>, <<"m", "a", "i", "n", "x">>,
      <<"x", "a", "b", "c", "d", "x">>, <<"a", "b", "c", "d", "m", "a", "i", "n">>,
      <<"c">>, <<"z", "z">>, <<"a", " ", "-", " ", "b">>, <<"(", "A", ")", " ", "/">> }

\* a file name is kept as a sequence of one-character strings; <<>> if absent
Route(num, rid, file, id, stops) ==
    [route_num |-> num, route_id |-> rid, file |-> file, id |-> id,
     hasStops |-> TRUE, stops |-> stops]

\* a route object without a stops array
BadRoute == [route_num |-> "B", route_id |-> "", file |-> <<>>, id |-> "",
             hasStops |-> FALSE, stops |-> <<>>]

RouteX == Route("X", "", <<>>, "", <<"1", "3", "2">>)
RouteY == Route("", "Y", <<>>, "", <<"3", "4">>)
RouteZ == Route("", "", <<"r", "o", "u", "t", "e", "Z", ".", "j", "s", "o", "n">>, "",
                <<"2", "9", "4", "5">>)
\* a loop line: passes stop 1 twice, names a stop no catalog holds, and
\* derives the key "Y" as RouteY does
RouteL == Route("", "", <<>>, "Y", <<"1", "9", "5", "1", "3">>)

\* the routes a routesArray is drawn from, in file order
AllRoutes == <<RouteX, RouteY, RouteZ, BadRoute, RouteL>>

RECURSIVE SubSeqsUpTo(_, _)
\* the subsequences of s (order kept) of length <= n
SubSeqsUpTo(s, n) ==
    IF s = <<>> \/ n = 0 THEN {<<>>}
    ELSE SubSeqsUpTo(Tail(s), n) \cup
         {<<Head(s)>> \o t : t \in SubSeqsUpTo(Tail(s), n - 1)}

\* routesArray arguments of RouteIndex.initialize
RouteArrays == SubSeqsUpTo(AllRoutes, MaxRoutes)

\* stopsData arguments of StopMatcher.initialize for name lookups
NameCatalogs == SubSeqsUpTo(AllNamedStops, MaxStops)

\* a short line through stop 3, which RouteX and RouteY serve as well
RouteH == Route("H", "", <<>>, "", <<"3", "5">>)

\* a route object with every key field set
RouteM == Route("M", "Y", <<"r", "o", "u", "t", "e", "Z", ".", "j", "s", "o", "n">>, "X",
                <<"1", "2">>)
\* a route identifier next to a usable file name
RouteI == Route("", "I", <<"r", "o", "u", "t", "e", "Z", ".", "j", "s", "o", "n">>, "X",
                <<"2", "4">>)
\* a file name the pattern does not match, next to an id
RouteF == Route("", "", <<"b", "u", "s", "7", ".", "j", "s", "o", "n">>, "F", <<"4">>)
\* a route object without any key field
RouteN == Route("", "", <<>>, "", <<"2">>)

\* routesArray arguments that can make stop 3 a transfer hub, and that derive
\* their keys from every field getRouteKey reads
HubRouteArrays ==
    SubSeqsUpTo(AllRoutes \o <<RouteH>>, MaxRoutes)
        \cup SubSeqsUpTo(<<RouteM, RouteI, RouteF, RouteL, RouteN>>, MaxRoutes)

\* the dense catalog: every line runs from stop 1 through all hub stops and
\* back to stop 1; stop 5 is loaded but on no line
HubStop(j) == ToString(j + 9)

HubRoute(i) ==
    Route("r" \o ToString(i), "", <<>>, "",
          <<"1">> \o [j \in 1..HubStops |-> HubStop(j)] \o <<"1">>)

HubRouteArray == [i \in 1..HubRoutes |-> HubRoute(i)]

HubCatalog ==
    << <<"1", [StopRecord("1") EXCEPT !.lat = 0]>>,
       <<"5", [StopRecord("5") EXCEPT !.lat = 0]>> >>
    \o [j \in 1..HubStops |-> <<HubStop(j), [StopRecord(HubStop(j)) EXCEPT !.lat = 0]>>]

\* cachedData arguments of RouteIndex.importFromCache: an empty snapshot, and
\* one that names a route key ("Q") no route object has and lists a key twice
CachePool ==
    { [stopToRoutes |-> <<>>, transferHubs |-> <<>>],
      [stopToRoutes |-> << <<"1", <<"Q", "X", "Y">>>>, <<"3", <<"X", "Y">>>>,
                           <<"2", <<"X", "Z">>>>, <<"4", <<"Y", "Z">>>>,
                           <<"5", <<"Z", "Z">>>> >>,
       transferHubs |-> <<"1">>] }

-----------------------------------------------------------------------------
(* RouteIndex (js/routeIndex.js) *)

RECURSIVE Concat(_)
\* the string made of the characters cs
Concat(cs) == IF cs = <<>> THEN "" ELSE Head(cs) \o Concat(Tail(cs))

IsAt(file, p, lit) ==
    /\ p + Len(lit) - 1 <= Len(file)
    /\ \A i \in 1..Len(lit) : file[p + i - 1] = lit[i]

\* route.file.match(/route([^.]+)\.json/): the captured group, "" without a match
FileMatch(file) ==
    LET starts == {p \in 1..Len(file) :
                     /\ IsAt(file, p, <<"r", "o", "u", "t", "e">>)
                     /\ \E e \in (p + 6)..Len(file) :
                          /\ \A i \in (p + 5)..(e - 1) : file[i] # "."
                          /\ IsAt(file, e, <<".", "j", "s", "o", "n">>)}
    IN  IF starts = {} THEN ""
        ELSE LET p == CHOOSE q \in starts : \A r \in starts : q <= r
                 e == CHOOSE d \in (p + 6)..Len(file) :
                          /\ file[d] = "."
                          /\ \A i \in (p + 5)..(d - 1) : file[i] # "."
             IN  Concat(SubSeq(file, p + 5, e - 1))

\* faulty variant: the route identifier is read before the route number
getRouteKey_IdFirst(route) ==
    IF route.route_id # "" THEN route.route_id
    ELSE IF route.route_num # "" THEN route.route_num
    ELSE IF route.file # <<>> /\ FileMatch(route.file) # "" THEN FileMatch(route.file)
    ELSE IF route.id # "" THEN route.id
    ELSE "unknown"

getRouteKey(route) ==
    IF route.route_num # "" THEN route.route_num
    ELSE IF route.route_id # "" THEN route.route_id
    ELSE IF route.file # <<>> /\ FileMatch(route.file) # "" THEN FileMatch(route.file)
    ELSE IF route.id # "" THEN route.id
    ELSE "unknown"

\* the guard of the skip at routeIndex.js:42
ValidRoute(route) == route.hasStops

\* faulty variant: a stop already indexed keeps its set unchanged
IndexStops_FirstRouteOnly(s2r, stops, routeKey) ==
    [stopIdStr \in DOMAIN s2r \cup Range(stops) |->
        IF stopIdStr \in DOMAIN s2r THEN s2r[stopIdStr] ELSE <<routeKey>>]

\* the inner loop of initialize: routeKey is added to the set of every stop of
\* the route (adding it again for a stop the route passes twice changes nothing)
IndexStops(s2r, stops, routeKey) ==
    [stopIdStr \in DOMAIN s2r \cup Range(stops) |->
        IF stopIdStr \in Range(stops)
        THEN SetAdd(IF stopIdStr \in DOMAIN s2r THEN s2r[stopIdStr] ELSE <<>>, routeKey)
        ELSE s2r[stopIdStr]]

RECURSIVE IndexRoutes(_, _)
\* the outer loop of initialize, over [s2r, rd] = [stopToRoutes, routeData]
IndexRoutes(acc, routesArray) ==
    IF routesArray = <<>> THEN acc
    ELSE LET route == Head(routesArray)
             routeKey == getRouteKey(route)
         IN  IF ~ValidRoute(route) THEN IndexRoutes(acc, Tail(routesArray))
             ELSE IndexRoutes([s2r |-> IndexStops(acc.s2r, route.stops, routeKey),
                               rd  |-> (routeKey :> route) @@ acc.rd],
                              Tail(routesArray))

EmptyMap == [x \in {} |-> <<>>]

\* stops served by 3+ routes
HubsOf(s2r) == {s \in DOMAIN s2r : Len(s2r[s]) >= 3}

getRoutes(stopId) ==
    IF stopId \in DOMAIN stopToRoutes THEN stopToRoutes[stopId] ELSE <<>>

hasRouteData(routeKey) == routeKey \in DOMAIN routeData

getRouteData(routeKey) == routeData[routeKey]

\* faulty variant: ready as soon as a load has run
isReady_InitializedOnly == riInitialized

isReady == riInitialized /\ DOMAIN stopToRoutes # {}

RECURSIVE Dedup(_)
\* new Set(array)
Dedup(s) == IF s = <<>> THEN <<>>
            ELSE LET d == Dedup(SubSeq(s, 1, Len(s) - 1))
                 IN  SetAdd(d, s[Len(s)])

RECURSIVE RestoreMap(_, _)
RestoreMap(m, entries) ==
    IF entries = <<>> THEN m
    ELSE RestoreMap((Head(entries)[1] :> Dedup(Head(entries)[2])) @@ m, Tail(entries))

\* faulty variant: the hub set is not cleared
ClearedHubs_Kept(hubs) == hubs

\* this.transferHubs.clear()
ClearedHubs(hubs) == {}

RIInitialize(routesArray) ==
    /\ pc = "idle"
    /\ LET built == IndexRoutes([s2r |-> EmptyMap, rd |-> EmptyMap], routesArray)
       IN  /\ stopToRoutes' = built.s2r
           /\ routeData' = built.rd
           /\ transferHubs' = ClearedHubs(transferHubs) \cup HubsOf(built.s2r)
    /\ riInitialized' = TRUE
    /\ lastRoutes' = routesArray
    /\ riSource' = "initialize"
    /\ UNCHANGED <<viewVars, smVars, pc, argVars, runVars, histVars>>

\* the index state importFromCache(cachedData) leaves; source is the history mark
Imported(cachedData, source) ==
    /\ pc = "idle"
    /\ stopToRoutes' = RestoreMap(EmptyMap, cachedData.stopToRoutes)
    /\ transferHubs' = Range(cachedData.transferHubs)
    /\ riInitialized' = TRUE
    /\ riSource' = source
    /\ UNCHANGED <<viewVars, routeData, lastRoutes, smVars, pc, argVars, runVars, histVars>>

RIImportFromCache(cachedData) == Imported(cachedData, "import")

RECURSIVE SetToSeq(_)
\* Array.from over a Set or over the keys of a Map (the order of the keys of
\* stopToRoutes and of the hubs is not kept in this model; one order is taken)
SetToSeq(S) ==
    IF S = {} THEN <<>>
    ELSE LET x == CHOOSE y \in S : TRUE IN <<x>> \o SetToSeq(S \ {x})

\* faulty variant: the hubs are left out of the snapshot
exportForCache_NoHubs ==
    [stopToRoutes |-> [i \in 1..Len(SetToSeq(DOMAIN stopToRoutes)) |->
                          <<SetToSeq(DOMAIN stopToRoutes)[i],
                            stopToRoutes[SetToSeq(DOMAIN stopToRoutes)[i]]>>],
     transferHubs |-> <<>>]

\* the snapshot of exportForCache, without its timestamp
exportForCache ==
    [stopToRoutes |-> [i \in 1..Len(SetToSeq(DOMAIN stopToRoutes)) |->
                          <<SetToSeq(DOMAIN stopToRoutes)[i],
                            stopToRoutes[SetToSeq(DOMAIN stopToRoutes)[i]]>>],
     transferHubs |-> SetToSeq(transferHubs)]

\* importFromCache(exportForCache()) on the same index
RIRoundTrip == Imported(exportForCache, "reimport")

-----------------------------------------------------------------------------
(* StopMatcher (part_000:398-651): the part the path finder uses *)

\* the field stop.id of a loaded record
StopIdField(stop) == stop.id

hasStop(stopId) == stopId \in DOMAIN idToStop

getStopById(stopId) == idToStop[stopId]

\* String.prototype.toLowerCase on one character
Lower(c) ==
    CASE c = "A" -> "a" [] c = "B" -> "b" [] c = "C" -> "c" [] c = "D" -> "d"
      [] c = "M" -> "m" [] c = "S" -> "s" [] c = "X" -> "x"
      [] OTHER -> c

\* the characters \s matches, and those /[(),.\-/]/ matches
IsSpace(c) == c \in {" ", "\t"}
IsPunct(c) == c \in {"(", ")", ",", ".", "-", "/"}

toLowerCase(text) == [i \in 1..Len(text) |-> Lower(text[i])]

\* String.prototype.trim
trim(text) ==
    LET solid == {i \in 1..Len(text) : ~IsSpace(text[i])}
    IN  IF solid = {} THEN <<>>
        ELSE SubSeq(text, CHOOSE i \in solid : \A j \in solid : i <= j,
                          CHOOSE i \in solid : \A j \in solid : i >= j)

\* replace(/\s+/g, ' '): every run of whitespace becomes one space
CollapseSpaces(text) ==
    LET kept == SelectSeq([i \in 1..Len(text) |-> i],
                          LAMBDA i : ~IsSpace(text[i]) \/ i = 1 \/ ~IsSpace(text[i - 1]))
    IN  [k \in 1..Len(kept) |-> IF IsSpace(text[kept[k]]) THEN " " ELSE text[kept[k]]]

\* replace(/[(),.\-/]/g, '')
StripPunct(text) == SelectSeq(text, LAMBDA c : ~IsPunct(c))

\* faulty variant: the second clean-up of spaces is left out
normalize_OneCleanUp(text) ==
    IF text = <<>> THEN <<>>
    ELSE trim(StripPunct(CollapseSpaces(trim(toLowerCase(text)))))

normalize(text) ==
    IF text = <<>> THEN <<>>
    ELSE trim(CollapseSpaces(StripPunct(CollapseSpaces(trim(toLowerCase(text))))))

\* the position of the entry of normalizedName in the name index, 0 if none
NameAt(index, normalizedName) ==
    IF \E i \in 1..Len(index) : index[i].name = normalizedName
    THEN CHOOSE i \in 1..Len(index) : index[i].name = normalizedName
    ELSE 0

addToNameIndex(index, normalizedName, stopId) ==
    IF NameAt(index, normalizedName) = 0
    THEN Append(index, [name |-> normalizedName, ids |-> <<stopId>>])
    ELSE [index EXCEPT ![NameAt(index, normalizedName)].ids = Append(@, stopId)]

\* faulty variant: the Myanmar and road names are indexed before the English
\* name is looked at
LoadStop_NamesFirst(acc, id, stop) ==
    LET withMm == IF stop.name_mm = <<>> THEN acc.names
                  ELSE addToNameIndex(acc.names, normalize(stop.name_mm), id)
        withRoad == IF stop.road_en = <<>> THEN withMm
                    ELSE addToNameIndex(withMm, normalize(stop.road_en), id)
    IN  IF stop.name_en = <<>> THEN [acc EXCEPT !.names = withRoad]
        ELSE [stops |-> (id :> stop) @@ acc.stops,
              names |-> addToNameIndex(withRoad, normalize(stop.name_en), id)]

\* one pass of the loop of initialize over acc = [stops, names]
LoadStop(acc, id, stop) ==
    IF stop.name_en = <<>> THEN acc
    ELSE LET withEn == addToNameIndex(acc.names, normalize(stop.name_en), id)
             withMm == IF stop.name_mm = <<>> THEN withEn
                       ELSE addToNameIndex(withEn, normalize(stop.name_mm), id)
             withRoad == IF stop.road_en = <<>> THEN withMm
                         ELSE addToNameIndex(withMm, normalize(stop.road_en), id)
         IN  [stops |-> (id :> stop) @@ acc.stops, names |-> withRoad]

RECURSIVE LoadStops(_, _)
\* the loop of initialize over Object.entries(stopsData)
LoadStops(acc, entries) ==
    IF entries = <<>> THEN acc
    ELSE LoadStops(LoadStop(acc, Head(entries)[1], Head(entries)[2]), Tail(entries))

\* no findStopId or search call has been made
NoLookup == [op |-> "none", query |-> <<>>, limit |-> 0, found |-> "", results |-> <<>>]

\* the match scores of search
EXACT_MATCH == 100
STARTS_WITH == 80
CONTAINS == 50
PARTIAL == 30

startsWith(name, norm) ==
    Len(norm) <= Len(name) /\ SubSeq(name, 1, Len(norm)) = norm

\* String.prototype.includes
includes(name, norm) ==
    \E p \in 1..(Len(name) - Len(norm) + 1) : SubSeq(name, p, p + Len(norm) - 1) = norm

\* the tests of the four tiers, on an entry of the name index
IsExact(entry, norm) == entry.name = norm
IsPrefix(entry, norm) == startsWith(entry.name, norm)
IsContains(entry, norm) == includes(entry.name, norm)
IsReverse(entry, norm) == includes(norm, entry.name) /\ Len(entry.name) > 3

\* the test of the tier of that score
Matches(tier, entry, norm) ==
    CASE tier = EXACT_MATCH -> IsExact(entry, norm)
      [] tier = STARTS_WITH -> IsPrefix(entry, norm)
      [] tier = CONTAINS    -> IsContains(entry, norm)
      [] tier = PARTIAL     -> IsReverse(entry, norm)

\* ids[0] of the first entry of the name index, in insertion order, that
\* passes the test of the tier
FirstHit(tier, norm) ==
    LET hits == {i \in 1..Len(nameToIds) : Matches(tier, nameToIds[i], norm)}
    IN  nameToIds[CHOOSE i \in hits : \A j \in hits : i <= j].ids[1]

HasHit(tier, norm) == \E i \in 1..Len(nameToIds) : Matches(tier, nameToIds[i], norm)

\* faulty variant: the contains tier is tried before the starts-with tier
Cascade_ContainsFirst(norm) ==
    IF HasHit(EXACT_MATCH, norm) THEN FirstHit(EXACT_MATCH, norm)
    ELSE IF HasHit(CONTAINS, norm) THEN FirstHit(CONTAINS, norm)
    ELSE IF HasHit(STARTS_WITH, norm) THEN FirstHit(STARTS_WITH, norm)
    ELSE IF HasHit(PARTIAL, norm) THEN FirstHit(PARTIAL, norm)
    ELSE ""

\* the four tiers of findStopId on the normalized query; "" is null
Cascade(norm) ==
    IF HasHit(EXACT_MATCH, norm) THEN FirstHit(EXACT_MATCH, norm)
    ELSE IF HasHit(STARTS_WITH, norm) THEN FirstHit(STARTS_WITH, norm)
    ELSE IF HasHit(CONTAINS, norm) THEN FirstHit(CONTAINS, norm)
    ELSE IF HasHit(PARTIAL, norm) THEN FirstHit(PARTIAL, norm)
    ELSE ""

findStopId(query) ==
    IF query = <<>> THEN ""
    ELSE IF normalize(query) = <<>> THEN ""
    ELSE Cascade(normalize(query))

RECURSIVE AddIds_Overwrite(_, _, _, _)
\* faulty variant: every tier sets the score of an id it meets
AddIds_Overwrite(acc, ids, score, always) ==
    IF ids = <<>> THEN acc
    ELSE AddIds_Overwrite([results |-> SetAdd(acc.results, Head(ids)),
                           scores |-> (Head(ids) :> score) @@ acc.scores],
                          Tail(ids), score, always)

RECURSIVE AddIds(_, _, _, _)
\* the loop `for (const id of ids)` over acc = [results, scores]; the exact
\* tier (always) sets the score, the other tiers skip an id already found
AddIds(acc, ids, score, always) ==
    IF ids = <<>> THEN acc
    ELSE LET id == Head(ids)
             next == IF always \/ ~Contains(acc.results, id)
                     THEN [results |-> SetAdd(acc.results, id),
                           scores |-> (id :> score) @@ acc.scores]
                     ELSE acc
         IN  AddIds(next, Tail(ids), score, always)

RECURSIVE AddTier(_, _, _, _)
\* one loop over the entries of the name index, for the tier of that score
AddTier(acc, entries, norm, score) ==
    IF entries = <<>> THEN acc
    ELSE AddTier(IF Matches(score, Head(entries), norm)
                 THEN AddIds(acc, Head(entries).ids, score, FALSE) ELSE acc,
                 Tail(entries), norm, score)

\* faulty variant: the comparator is a.matchScore - b.matchScore
InsertByScore_Ascending(sorted, x) ==
    LET later == {i \in 1..Len(sorted) : x.matchScore - sorted[i].matchScore < 0}
        at == IF later = {} THEN Len(sorted) + 1
              ELSE CHOOSE i \in later : \A j \in later : i <= j
    IN  SubSeq(sorted, 1, at - 1) \o <<x>> \o SubSeq(sorted, at, Len(sorted))

\* x inserted after every element whose matchScore is not lower
InsertByScore(sorted, x) ==
    LET later == {i \in 1..Len(sorted) : sorted[i].matchScore - x.matchScore < 0}
        at == IF later = {} THEN Len(sorted) + 1
              ELSE CHOOSE i \in later : \A j \in later : i <= j
    IN  SubSeq(sorted, 1, at - 1) \o <<x>> \o SubSeq(sorted, at, Len(sorted))

RECURSIVE SortByScore(_)
\* sort((a, b) => b.matchScore - a.matchScore), stable
SortByScore(r) ==
    IF r = <<>> THEN <<>>
    ELSE InsertByScore(SortByScore(SubSeq(r, 1, Len(r) - 1)), r[Len(r)])

\* .sort(...).slice(0, limit)
Ranked(r, limit) == JsSlice(SortByScore(r), 0, limit)

search(query, limit) ==
    IF query = <<>> \/ ~smInitialized THEN <<>>
    ELSE IF normalize(query) = <<>> THEN <<>>
    ELSE
    LET norm == normalize(query)
        exactIds == IF NameAt(nameToIds, norm) = 0 THEN <<>>
                    ELSE nameToIds[NameAt(nameToIds, norm)].ids
        exact == AddIds([results |-> <<>>, scores |-> EmptyMap], exactIds, EXACT_MATCH, TRUE)
        starts == AddTier(exact, nameToIds, norm, STARTS_WITH)
        contains == IF Len(starts.results) < limit
                    THEN AddTier(starts, nameToIds, norm, CONTAINS)
                    ELSE starts
        partial == IF Len(contains.results) < limit /\ Len(norm) > 5
                   THEN AddTier(contains, nameToIds, norm, PARTIAL)
                   ELSE contains
        known == SelectSeq(partial.results, hasStop)
        stopResults == [i \in 1..Len(known) |->
                           [id |-> StopIdField(getStopById(known[i])),
                            matchScore |-> partial.scores[known[i]]]]
    IN  Ranked(SelectSeq(stopResults, LAMBDA stop : stop.id # ""), limit)

SMFindStopId(query) ==
    /\ smCall' = [NoLookup EXCEPT !.op = "findStopId", !.query = query,
                                  !.found = findStopId(query)]
    /\ UNCHANGED <<viewVars, riVars, idToStop, nameToIds, smInitialized, lastStops,
                   pc, argVars, runVars, histVars>>

SMSearch(query, limit) ==
    /\ smCall' = [NoLookup EXCEPT !.op = "search", !.query = query, !.limit = limit,
                                  !.results = search(query, limit)]
    /\ UNCHANGED <<viewVars, riVars, idToStop, nameToIds, smInitialized, lastStops,
                   pc, argVars, runVars, histVars>>

\* the catalog is loaded once (a bound of the model, not of the code)
SMInitialize(stopsData) ==
    /\ pc = "idle"
    /\ ~smInitialized
    /\ LET loaded == LoadStops([stops |-> EmptyMap, names |-> <<>>], stopsData)
       IN  /\ idToStop' = loaded.stops
           /\ nameToIds' = loaded.names
    /\ smInitialized' = TRUE
    /\ lastStops' = stopsData
    /\ smCall' = NoLookup
    /\ UNCHANGED <<viewVars, riVars, pc, argVars, runVars, histVars>>

-----------------------------------------------------------------------------
(* PathFinder (part_000:15-378) *)

\* an option the caller leaves out (undefined)
Undefined == -1

DefaultMaxTransfers == 2
DefaultMaxPaths == 10
DefaultMaxDistance == 50
MaxIterations == 10000

\* an options object; a property the caller leaves out is Undefined
Options(mt, mp, md, mi) ==
    [maxTransfers |-> mt, maxPaths |-> mp, maxDistance |-> md, maxIterations |-> mi]

\* the options objects a caller passes: {}, {maxTransfers: t}, {maxPaths: 1}
OptionsPool ==
    {Options(t, Undefined, Undefined, Undefined) : t \in (0..MaxTransfersOpt) \cup {Undefined}}
    \cup {Options(Undefined, 1, Undefined, Undefined)}

\* the maxDistance values (km) and the iteration budgets a caller passes
DistanceOptions == {Undefined, 1, 9}
BudgetOptions == {Undefined, 1}

\* options objects with a maxDistance and a maxIterations property
WideOptionsPool ==
    {Options(Undefined, Undefined, md, mi) : md \in DistanceOptions, mi \in BudgetOptions}

\* destructuring default: `x = d` takes d exactly when x is undefined
OrDefault(x, d) == IF x = Undefined THEN d ELSE x

\* the template literal `${stop.id}-${state.currentRoute}`
VisitKey(stopId, routeKey) == stopId \o "-" \o routeKey

\* faulty variant: the stops after the current one, known to the matcher or not
getReachableStops_Unfiltered(stopId, routeKey) ==
    IF ~hasRouteData(routeKey) THEN <<>>
    ELSE LET stops == getRouteData(routeKey).stops
             fromIndex == FindIndex(stops, stopId)
         IN  IF fromIndex = -1 THEN <<>>
             ELSE SubSeq(stops, fromIndex + 2, Len(stops))

\* faulty variant: every other stop of the route, before or after the current one
getReachableStops_BothWays(stopId, routeKey) ==
    IF ~hasRouteData(routeKey) THEN <<>>
    ELSE LET stops == getRouteData(routeKey).stops
             fromIndex == FindIndex(stops, stopId)
             others == IF fromIndex = -1 THEN <<>>
                       ELSE SelectSeq(stops, LAMBDA id : id # stopId)
             known == SelectSeq(others, hasStop)
         IN  [i \in 1..Len(known) |-> StopIdField(getStopById(known[i]))]

getReachableStops(stopId, routeKey) ==
    IF ~hasRouteData(routeKey) THEN <<>>
    ELSE LET stops == getRouteData(routeKey).stops
             fromIndex == FindIndex(stops, stopId)
             after == IF fromIndex = -1 THEN <<>>
                      ELSE SubSeq(stops, fromIndex + 2, Len(stops))
             known == SelectSeq(after, hasStop)
         IN  [i \in 1..Len(known) |-> StopIdField(getStopById(known[i]))]

\* haversine distance times 1.2 between two stops of the meridian grid, after
\* toFixed(2): hundredths of a kilometre
calculateDistance(stop1, stop2) == 100 * Abs(stop2.lat - stop1.lat)

NullLeg == [null |-> TRUE]

IsNullLeg(leg) == "null" \in DOMAIN leg

\* faulty variant: every leg is taken to board at the origin
BoardStopOf_AlwaysOrigin(legs, originId) == originId

\* the first and the last leg of a state's chain start where the previous ended
BoardStopOf(legs, originId) ==
    IF Len(legs) = 0 THEN originId ELSE legs[Len(legs)].alightStop

buildDetailedLeg(leg) ==
    IF ~hasRouteData(leg.route) \/ ~hasStop(leg.boardStop) \/ ~hasStop(leg.alightStop)
    THEN NullLeg
    ELSE LET route == getRouteData(leg.route)
             boardStop == getStopById(leg.boardStop)
             alightStop == getStopById(leg.alightStop)
             boardIdx == FindIndex(route.stops, leg.boardStop)
             alightIdx == FindIndex(route.stops, leg.alightStop)
             stopCount == alightIdx - boardIdx
             between == SelectSeq(JsSlice(route.stops, boardIdx, alightIdx + 1), hasStop)
         IN  [route |-> leg.route,
              boardStop |-> StopIdField(boardStop),
              alightStop |-> StopIdField(alightStop),
              stopCount |-> stopCount,
              stops |-> [i \in 1..Len(between) |-> StopIdField(getStopById(between[i]))],
              distance |-> calculateDistance(boardStop, alightStop)]

\* the value thrown by `leg.stopCount` on a null leg
Raised == [raised |-> TRUE]

IsRaised(path) == "raised" \in DOMAIN path

\* faulty variant: the final leg boards where the state stands
buildCompletePath_FromCurrentStop(state, destinationId, originId) ==
    IF Len(state.legs) = 0 /\ ~hasStop(originId) THEN Raised
    ELSE
    LET originField == IF hasStop(originId) THEN StopIdField(getStopById(originId))
                       ELSE originId
        finalLeg == [route |-> state.currentRoute,
                     boardStop |-> state.currentStop,
                     alightStop |-> destinationId]
        allLegs == Append(state.legs, finalLeg)
        detailedLegs == [i \in 1..Len(allLegs) |-> buildDetailedLeg(allLegs[i])]
    IN  IF \E i \in 1..Len(detailedLegs) : IsNullLeg(detailedLegs[i]) THEN Raised
        ELSE [legs |-> detailedLegs,
              transferCount |-> Len(allLegs) - 1,
              totalStops |-> SeqSum([i \in 1..Len(detailedLegs) |->
                                        detailedLegs[i].stopCount]),
              totalDistance |-> SeqSum([i \in 1..Len(detailedLegs) |->
                                           detailedLegs[i].distance]),
              score |-> 0]

\* originId is the key of the origin stop; `originStop.id` is read (and throws
\* on a null originStop) only when the state has no legs yet
buildCompletePath(state, destinationId, originId) ==
    IF Len(state.legs) = 0 /\ ~hasStop(originId) THEN Raised
    ELSE
    LET originField == IF hasStop(originId) THEN StopIdField(getStopById(originId))
                       ELSE originId
        finalLeg == [route |-> state.currentRoute,
                     boardStop |-> BoardStopOf(state.legs, originField),
                     alightStop |-> destinationId]
        allLegs == Append(state.legs, finalLeg)
        detailedLegs == [i \in 1..Len(allLegs) |-> buildDetailedLeg(allLegs[i])]
    IN  IF \E i \in 1..Len(detailedLegs) : IsNullLeg(detailedLegs[i]) THEN Raised
        ELSE [legs |-> detailedLegs,
              transferCount |-> Len(allLegs) - 1,
              totalStops |-> SeqSum([i \in 1..Len(detailedLegs) |->
                                        detailedLegs[i].stopCount]),
              totalDistance |-> SeqSum([i \in 1..Len(detailedLegs) |->
                                           detailedLegs[i].distance]),
              score |-> 0]

\* Math.round-to-3-decimals of num/den (num, den >= 0), in thousandths:
\* parseFloat(score.toFixed(3)) on the exact quotient
RoundDiv(num, den) == (2 * num + den) \div (2 * den)

\* 1000 * (0.5*(1 - t/maxT) + 0.3*(1 - s/maxS) + 0.2*(1 - d/maxD)), rounded
ScoreOf(path, maxT, maxS, maxD) ==
    RoundDiv(100 * ( 5 * (maxT - path.transferCount) * maxS * maxD
                   + 3 * (maxS - path.totalStops) * maxT * maxD
                   + 2 * (maxD - path.totalDistance) * maxT * maxS ),
             maxT * maxS * maxD)

\* the comparator of rankPaths: a negative number sorts a before b
ComparePaths(a, b) ==
    IF b.score # a.score THEN b.score - a.score
    ELSE IF a.transferCount # b.transferCount THEN a.transferCount - b.transferCount
    ELSE a.totalStops - b.totalStops

\* x inserted after every element that does not sort after it
InsertSorted(sorted, x) ==
    LET later == {i \in 1..Len(sorted) : ComparePaths(x, sorted[i]) < 0}
        at == IF later = {} THEN Len(sorted) + 1
              ELSE CHOOSE i \in later : \A j \in later : i <= j
    IN  SubSeq(sorted, 1, at - 1) \o <<x>> \o SubSeq(sorted, at, Len(sorted))

RECURSIVE StableSort(_)
\* Array.prototype.sort with ComparePaths (stable)
StableSort(s) ==
    IF s = <<>> THEN <<>>
    ELSE InsertSorted(StableSort(SubSeq(s, 1, Len(s) - 1)), s[Len(s)])

\* the three maxima of rankPaths, each floored at 1 (1 km = 100 hundredths)
MaxTransfersSeen(ps) == SeqMax([i \in 1..Len(ps) |-> ps[i].transferCount], 1)
MaxStopsSeen(ps) == SeqMax([i \in 1..Len(ps) |-> ps[i].totalStops], 1)
MaxDistSeen(ps) == SeqMax([i \in 1..Len(ps) |-> ps[i].totalDistance], 100)

ScoredPaths(ps) ==
    [i \in 1..Len(ps) |->
        [ps[i] EXCEPT !.score = ScoreOf(ps[i], MaxTransfersSeen(ps), MaxStopsSeen(ps),
                                        MaxDistSeen(ps))]]

\* faulty variant: the scored candidates are cut to limit without sorting
rankPaths_Unsorted(ps, limit) ==
    IF Len(ps) = 0 THEN <<>>
    ELSE LET scored == ScoredPaths(ps)
         IN  SubSeq(scored, 1, IF limit < Len(scored) THEN limit ELSE Len(scored))

rankPaths(ps, limit) ==
    IF Len(ps) = 0 THEN <<>>
    ELSE LET sorted == StableSort(ScoredPaths(ps))
         IN  SubSeq(sorted, 1, IF limit < Len(sorted) THEN limit ELSE Len(sorted))

\* faulty variant: candidates longer than maxDist km are dropped
PathsToRank_WithinDistance(ps, maxDist) ==
    SelectSeq(ps, LAMBDA path : path.totalDistance <= 100 * maxDist)

\* the candidates handed to rankPaths at part_000:171: all of them, maxDist
\* (the maxDistance of part_000:32) is read nowhere
PathsToRank(ps, maxDist) == ps

\* the history of a visit key after one more state has reached it at stopId,
\* passed the prune or not, and pushed n states; after is the lowest count of
\* the earlier reaches, Undefined without any; pass numbers the reaches that
\* passed the prune from 1, and is 0 for a pruned one
Reached(r, visitKey, stopId, state, passed, n) ==
    LET earlier == IF visitKey \in DOMAIN r THEN r[visitKey] ELSE {}
        counts == {e.transferCount : e \in earlier}
        lowest == IF counts = {} THEN Undefined
                  ELSE CHOOSE c \in counts : \A d \in counts : c <= d
        passes == {e.pass : e \in earlier} \cup {0}
        last == CHOOSE c \in passes : \A d \in passes : c >= d
    IN  (visitKey :> (earlier \cup {[stop |-> stopId, route |-> state.currentRoute,
                                     transferCount |-> state.transferCount,
                                     after |-> lowest,
                                     pass |-> IF passed THEN last + 1 ELSE 0,
                                     pushed |-> n]}))
            @@ r

\* faulty variant: nothing is pruned
Pruned_Never(vis, visitKey, state) == FALSE

\* faulty variant: only a strictly lower recorded count prunes
Pruned_StrictlyLower(vis, visitKey, state) ==
    visitKey \in DOMAIN vis /\ vis[visitKey] < state.transferCount

\* the dominance prune of part_000:125
Pruned(vis, visitKey, state) ==
    visitKey \in DOMAIN vis /\ vis[visitKey] <= state.transferCount

\* option 1: the state pushed to continue on the same route, if any
ContinueStates(state, stopId) ==
    IF stopId \notin state.visitedStops
    THEN << [currentStop |-> stopId,
             currentRoute |-> state.currentRoute,
             legs |-> state.legs,
             visitedStops |-> state.visitedStops \cup {stopId},
             transferCount |-> state.transferCount] >>
    ELSE <<>>

\* the leg closed by a transfer at stopId
NewLeg(state, stopId) ==
    [route |-> state.currentRoute,
     boardStop |-> BoardStopOf(state.legs, fromStopId),
     alightStop |-> stopId]

\* faulty variant: off by one, <= for <
UnderTransferLimit_OffByOne(state) == state.transferCount <= maxTransfers

\* the guard of option 2
UnderTransferLimit(state) == state.transferCount < maxTransfers

\* faulty variant: a transfer that forgets to count itself
TransferStates_Uncounted(state, stopId) ==
    IF UnderTransferLimit(state)
    THEN LET others == SelectSeq(getRoutes(stopId),
                                 LAMBDA newRoute : newRoute # state.currentRoute)
         IN  [i \in 1..Len(others) |->
                 [currentStop |-> stopId,
                  currentRoute |-> others[i],
                  legs |-> Append(state.legs, NewLeg(state, stopId)),
                  visitedStops |-> state.visitedStops \cup {stopId},
                  transferCount |-> state.transferCount]]
    ELSE <<>>

\* faulty variant: a transfer may stay on the current route
TransferStates_SameRouteToo(state, stopId) ==
    IF UnderTransferLimit(state)
    THEN LET others == getRoutes(stopId)
         IN  [i \in 1..Len(others) |->
                 [currentStop |-> stopId,
                  currentRoute |-> others[i],
                  legs |-> Append(state.legs, NewLeg(state, stopId)),
                  visitedStops |-> state.visitedStops \cup {stopId},
                  transferCount |-> state.transferCount + 1]]
    ELSE <<>>

\* option 2: one state per other route serving stopId
TransferStates(state, stopId) ==
    IF UnderTransferLimit(state)
    THEN LET others == SelectSeq(getRoutes(stopId),
                                 LAMBDA newRoute : newRoute # state.currentRoute)
         IN  [i \in 1..Len(others) |->
                 [currentStop |-> stopId,
                  currentRoute |-> others[i],
                  legs |-> Append(state.legs, NewLeg(state, stopId)),
                  visitedStops |-> state.visitedStops \cup {stopId},
                  transferCount |-> state.transferCount + 1]]
    ELSE <<>>

\* one pass of the inner `for (const stop of reachableStops)` body over
\* acc = [queue, visited, paths, raised, reaches]
VisitStop(acc, state, stopId) ==
    IF stopId = toStopId
    THEN LET path == buildCompletePath(state, stopId, fromStopId)
         IN  IF IsRaised(path) THEN [acc EXCEPT !.raised = TRUE]
             ELSE [acc EXCEPT !.paths = Append(@, path)]
    ELSE LET visitKey == VisitKey(stopId, state.currentRoute)
             pushed == ContinueStates(state, stopId) \o TransferStates(state, stopId)
         IN  IF Pruned(acc.visited, visitKey, state)
             THEN [acc EXCEPT
                     !.reaches = Reached(@, visitKey, stopId, state, FALSE, 0)]
             ELSE [acc EXCEPT
                     !.visited = (visitKey :> state.transferCount) @@ @,
                     !.queue = @ \o pushed,
                     !.reaches = Reached(@, visitKey, stopId, state, TRUE, Len(pushed))]

RECURSIVE VisitStops(_, _, _)
\* the inner loop; an exception leaves it at once
VisitStops(acc, state, stops) ==
    IF stops = <<>> \/ acc.raised THEN acc
    ELSE VisitStops(VisitStop(acc, state, Head(stops)), state, Tail(stops))

\* the frontier seeded at part_000:73-81
SeedQueue(originId, startRoutes) ==
    [i \in 1..Len(startRoutes) |->
        [currentStop |-> originId,
         currentRoute |-> startRoutes[i],
         legs |-> <<>>,
         visitedStops |-> {originId},
         transferCount |-> 0]]

\* faulty variant: the same-stop check is dropped
SameStop_Never(from, to) == FALSE

\* faulty variant: only the destination is looked up
UnknownStops_OnlyDestination(from, to) == ~hasStop(to)

\* the early returns of part_000:39-58 and :68
MissingIds(from, to) == from = "" \/ to = ""
SameStop(from, to) == from = to
UnknownStops(from, to) == ~hasStop(from) \/ ~hasStop(to)
NoStartRoutes(from) == Len(getRoutes(from)) = 0

ReturnsAtOnce(from, to) ==
    \/ MissingIds(from, to)
    \/ SameStop(from, to)
    \/ UnknownStops(from, to)
    \/ NoStartRoutes(from)

\* faulty variant: the visited map outlives the call
FreshVisited_Kept(previous) == previous

\* the visited map a call starts with
FreshVisited(previous) == EmptyMap

\* entry of findAllPaths up to the loop
Enter(from, to, opts) ==
    /\ fromStopId' = from
    /\ toStopId' = to
    /\ options' = opts
    /\ maxTransfers' = OrDefault(opts.maxTransfers, DefaultMaxTransfers)
    /\ maxPaths' = OrDefault(opts.maxPaths, DefaultMaxPaths)
    /\ maxDistance' = OrDefault(opts.maxDistance, DefaultMaxDistance)
    /\ paths' = <<>>
    /\ reaches' = EmptyMap
    /\ visited' = FreshVisited(visited)
    /\ iterations' = 0
    /\ dequeued' = 0
    /\ timedOut' = FALSE
    /\ result' = <<>>
    /\ IF ReturnsAtOnce(from, to)
       THEN /\ queue' = <<>>
            /\ outcome' = "returned"
            /\ pc' = "done"
       ELSE /\ queue' = SeedQueue(from, getRoutes(from))
            /\ outcome' = "none"
            /\ pc' = "loop"

FindAllPaths(from, to, opts) ==
    /\ pc = "idle"
    /\ Enter(from, to, opts)
    /\ UNCHANGED <<viewVars, riVars, smVars, firstCall>>

\* the caller repeats the call with the same arguments on the same catalogs
FindAllPathsAgain ==
    /\ pc = "done"
    /\ firstCall' = IF firstCall.outcome = "none"
                    THEN [outcome |-> outcome, result |-> result, timedOut |-> timedOut,
                          maxDistance |-> maxDistance]
                    ELSE firstCall
    /\ Enter(fromStopId, toStopId, options)
    /\ UNCHANGED <<viewVars, riVars, smVars>>

\* the caller repeats the call with another maxDistance, all else the same
FindAllPathsOtherDistance ==
    /\ pc = "done"
    /\ firstCall' = IF firstCall.outcome = "none"
                    THEN [outcome |-> outcome, result |-> result, timedOut |-> timedOut,
                          maxDistance |-> maxDistance]
                    ELSE firstCall
    /\ \E md \in DistanceOptions \ {options.maxDistance} :
           Enter(fromStopId, toStopId, [options EXCEPT !.maxDistance = md])
    /\ UNCHANGED <<viewVars, riVars, smVars>>

\* faulty variant: the loop runs until the frontier is empty
LoopContinues_NoCap(q, it) == Len(q) > 0

\* the loop condition of part_000:89
LoopContinues(q, it) == Len(q) > 0 /\ it < MaxIterations

\* the locals of the loop, as one value
LoopState ==
    [queue |-> queue, visited |-> visited, paths |-> paths,
     iterations |-> iterations, dequeued |-> dequeued, raised |-> FALSE,
     reaches |-> reaches]

\* the loop body of part_000:90-164 when the time budget is not exceeded
IterationBody(st) ==
    LET state == Head(st.queue)
        reachableStops == getReachableStops(state.currentStop, state.currentRoute)
        acc == VisitStops([queue |-> Tail(st.queue), visited |-> st.visited,
                           paths |-> st.paths, raised |-> FALSE,
                           reaches |-> st.reaches],
                          state, reachableStops)
    IN  [queue |-> acc.queue, visited |-> acc.visited, paths |-> acc.paths,
         iterations |-> st.iterations + 1, dequeued |-> st.dequeued + 1,
         raised |-> acc.raised, reaches |-> acc.reaches]

RECURSIVE RunLoop(_, _)
\* up to n consecutive iterations, none of which exceeds the time budget
RunLoop(st, n) ==
    IF n = 0 \/ st.raised \/ ~LoopContinues(st.queue, st.iterations) THEN st
    ELSE IF n = 1 THEN IterationBody(st)
    ELSE RunLoop(RunLoop(st, n \div 2), n - (n \div 2))

\* the loop has run from LoopState to st
LoopAdvances(st) ==
    /\ queue' = st.queue
    /\ visited' = st.visited
    /\ paths' = st.paths
    /\ iterations' = st.iterations
    /\ dequeued' = st.dequeued
    /\ reaches' = st.reaches
    /\ IF st.raised
       THEN outcome' = "raised" /\ pc' = "done"
       ELSE outcome' = "none" /\ pc' = "loop"
    /\ UNCHANGED <<viewVars, riVars, smVars, argVars, result, timedOut, histVars>>

\* one iteration of the while loop in which the time budget is not exceeded
LoopIteration ==
    /\ pc = "loop"
    /\ LoopContinues(queue, iterations)
    /\ LoopAdvances(IterationBody(LoopState))

\* RunLength iterations in a row (fewer if the loop ends before), seen as one step
LoopRun ==
    /\ pc = "loop"
    /\ LoopContinues(queue, iterations)
    /\ LoopAdvances(RunLoop(LoopState, RunLength))

\* an iteration that finds the time budget exceeded: break, rank, return
LoopTimeout ==
    /\ pc = "loop"
    /\ LoopContinues(queue, iterations)
    /\ iterations' = iterations + 1
    /\ timedOut' = TRUE
    /\ result' = rankPaths(PathsToRank(paths, maxDistance), maxPaths)
    /\ outcome' = "returned"
    /\ pc' = "done"
    /\ UNCHANGED <<viewVars, riVars, smVars, argVars, queue, visited, paths, dequeued, reaches,
                   histVars>>

\* the loop condition fails: rank and return
LoopExit ==
    /\ pc = "loop"
    /\ ~LoopContinues(queue, iterations)
    /\ result' = rankPaths(PathsToRank(paths, maxDistance), maxPaths)
    /\ outcome' = "returned"
    /\ pc' = "done"
    /\ UNCHANGED <<viewVars, riVars, smVars, argVars, queue, visited, paths, iterations,
                   timedOut, dequeued, reaches, histVars>>

-----------------------------------------------------------------------------
(* Autocomplete (part_001) *)

\* options.minChars and options.maxResults of the constructor
DefaultMinChars == 2
DefaultMaxResults == 8

\* debounce timeouts created and close timeouts pending, per run of the model
MaxTimers == 3
MaxBlurTimers == 1

\* the values an input event finds in the input element: "ab" and "cd" are
\* parts of stop names, "zz" of none, "a" and " a " are one character long
\* once trimmed
InputTexts == { <<"a", "b">>, <<"c", "d">>, <<"z", "z">>, <<"a">>, <<" ", "a", " ">> }

\* the stop catalog the widget's StopMatcher is loaded with
WidgetCatalog == SubSeq(AllNamedStops, 1, 2)

NoSearch == [ran |-> FALSE, query |-> <<>>, input |-> <<>>]

\* the state after new Autocomplete(input, stopMatcher) on an empty input
NoWidget ==
    /\ selectedIndex = -1
    /\ suggestions = <<>>
    /\ debounceTimer = 0
    /\ isOpen = FALSE
    /\ inputValue = <<>>
    /\ items = 0
    /\ timers = {}
    /\ timerIds = 0
    /\ blurTimers = 0
    /\ lastInput = <<>>
    /\ lastSearch = NoSearch
    /\ settled = FALSE
    /\ acRaised = FALSE

\* faulty variant: the previous timeout is left pending
clearTimeout_NoOp(pending, timer) == pending

\* if (this.debounceTimer) clearTimeout(this.debounceTimer): a timeout that
\* has fired already is no longer pending, and clearing it does nothing
clearTimeout(pending, timer) ==
    IF timer # 0 THEN {t \in pending : t.id # timer} ELSE pending

\* `${stop.name_en}${stop.name_mm ? ` (${stop.name_mm})` : ''}`; a missing
\* name_en prints as "undefined"
StopLabel(stop) ==
    (IF stop.name_en = <<>> THEN <<"u", "n", "d", "e", "f", "i", "n", "e", "d">>
     ELSE stop.name_en)
    \o (IF stop.name_mm # <<>> THEN <<" ", "(">> \o stop.name_mm \o <<")">> ELSE <<>>)

\* close()
Close ==
    /\ isOpen' = FALSE
    /\ selectedIndex' = -1

\* selectStop(this.suggestions[index]): suggestions[index] is undefined when
\* index is not an index of suggestions, and stop.id raises a TypeError then
SelectStop(index) ==
    IF index >= 0 /\ index < Len(suggestions)
    THEN /\ inputValue' = StopLabel(suggestions[index + 1])
         /\ Close
         /\ settled' = TRUE
         /\ UNCHANGED acRaised
    ELSE /\ acRaised' = TRUE
         /\ UNCHANGED <<inputValue, isOpen, selectedIndex, settled>>

\* search(query)
Search(query) ==
    IF ~smInitialized
    THEN /\ Close
         /\ UNCHANGED <<suggestions, items, smCall>>
    ELSE LET results == search(query, DefaultMaxResults)
         IN  /\ smCall' = [NoLookup EXCEPT !.op = "search", !.query = query,
                                           !.limit = DefaultMaxResults,
                                           !.results = results]
             /\ isOpen' = TRUE
             /\ IF results = <<>>
                THEN \* showNoResults(query)
                     /\ suggestions' = <<>>
                     /\ items' = 0
                     /\ UNCHANGED selectedIndex
                ELSE /\ suggestions' = [i \in 1..Len(results) |->
                                           [id |-> results[i].id,
                                            name_en |-> getStopById(results[i].id).name_en,
                                            name_mm |-> getStopById(results[i].id).name_mm,
                                            matchScore |-> results[i].matchScore]]
                     /\ selectedIndex' = -1
                     /\ items' = Len(results)

\* the input event: the user has changed the text to value
OnInput(value) ==
    LET query == trim(value)
        pending == clearTimeout(timers, debounceTimer)
    IN  /\ inputValue' = value
        /\ lastInput' = query
        /\ settled' = FALSE
        /\ IF Len(query) < DefaultMinChars
           THEN /\ timers' = pending
                /\ Close
                /\ UNCHANGED <<debounceTimer, timerIds>>
           ELSE /\ timerIds < MaxTimers
                /\ timerIds' = timerIds + 1
                /\ debounceTimer' = timerIds + 1
                /\ timers' = pending \cup {[id |-> timerIds + 1, query |-> query]}
                /\ UNCHANGED <<isOpen, selectedIndex>>
        /\ UNCHANGED <<suggestions, items, blurTimers, lastSearch, acRaised>>
        /\ UNCHANGED <<riVars, smVars, pc, argVars, runVars, histVars, uiVars>>

\* a debounce timeout expires: () => { this.search(query); }
DebounceTimeout ==
    \E t \in timers :
        /\ timers' = timers \ {t}
        /\ Search(t.query)
        /\ lastSearch' = [ran |-> TRUE, query |-> t.query, input |-> lastInput]
        /\ UNCHANGED <<debounceTimer, inputValue, timerIds, blurTimers, lastInput,
                       settled, acRaised>>
        /\ UNCHANGED <<riVars, idToStop, nameToIds, smInitialized, lastStops,
                       pc, argVars, runVars, histVars, uiVars>>

Keys == {"ArrowDown", "ArrowUp", "Enter", "Escape"}

\* the keydown event; a key pressed while the dropdown is closed does nothing
OnKeyDown(key) ==
    /\ isOpen
    /\ CASE key = "ArrowDown" ->
              \* selectNext()
              /\ selectedIndex' = IF selectedIndex < Len(suggestions) - 1
                                  THEN selectedIndex + 1 ELSE selectedIndex
              /\ UNCHANGED <<isOpen, inputValue, settled, acRaised>>
         [] key = "ArrowUp" ->
              \* selectPrevious()
              /\ selectedIndex' = IF selectedIndex > 0
                                  THEN selectedIndex - 1 ELSE selectedIndex
              /\ UNCHANGED <<isOpen, inputValue, settled, acRaised>>
         [] key = "Enter" ->
              IF selectedIndex >= 0 THEN SelectStop(selectedIndex)
              ELSE UNCHANGED <<selectedIndex, isOpen, inputValue, settled, acRaised>>
         [] OTHER ->
              /\ Close
              /\ UNCHANGED <<inputValue, settled, acRaised>>
    /\ UNCHANGED <<suggestions, debounceTimer, items, timers, timerIds, blurTimers,
                   lastInput, lastSearch>>
    /\ UNCHANGED <<riVars, smVars, pc, argVars, runVars, histVars, uiVars>>

\* the mouseenter listener of the item with dataset.index = index
OnMouseEnter(index) ==
    /\ isOpen
    /\ index \in 0..(items - 1)
    /\ selectedIndex' = index
    /\ UNCHANGED <<suggestions, debounceTimer, isOpen, inputValue, items, timers,
                   timerIds, blurTimers, lastInput, lastSearch, settled, acRaised>>
    /\ UNCHANGED <<riVars, smVars, pc, argVars, runVars, histVars, uiVars>>

\* the focus event
OnFocus ==
    /\ isOpen' = IF Len(suggestions) > 0 THEN TRUE ELSE isOpen
    /\ settled' = FALSE
    /\ UNCHANGED <<selectedIndex, suggestions, debounceTimer, inputValue, items,
                   timers, timerIds, blurTimers, lastInput, lastSearch, acRaised>>
    /\ UNCHANGED <<riVars, smVars, pc, argVars, runVars, histVars, uiVars>>

\* the blur event: setTimeout(() => { this.close(); }, 200)
OnBlur ==
    /\ blurTimers < MaxBlurTimers
    /\ blurTimers' = blurTimers + 1
    /\ UNCHANGED <<selectedIndex, suggestions, debounceTimer, isOpen, inputValue,
                   items, timers, timerIds, lastInput, lastSearch, settled, acRaised>>
    /\ UNCHANGED <<riVars, smVars, pc, argVars, runVars, histVars, uiVars>>

\* a close timeout of onBlur expires
BlurTimeout ==
    /\ blurTimers > 0
    /\ blurTimers' = blurTimers - 1
    /\ Close
    /\ UNCHANGED <<suggestions, debounceTimer, inputValue, items, timers, timerIds,
                   lastInput, lastSearch, settled, acRaised>>
    /\ UNCHANGED <<riVars, smVars, pc, argVars, runVars, histVars, uiVars>>

\* mousedown on the item with dataset.index = index of the displayed dropdown
OnDropdownClick(index) ==
    /\ isOpen
    /\ index \in 0..(items - 1)
    /\ SelectStop(index)
    /\ UNCHANGED <<suggestions, debounceTimer, items, timers, timerIds, blurTimers,
                   lastInput, lastSearch>>
    /\ UNCHANGED <<riVars, smVars, pc, argVars, runVars, histVars, uiVars>>

\* a click outside the input and the dropdown
OnDocumentClick ==
    /\ Close
    /\ UNCHANGED <<suggestions, debounceTimer, inputValue, items, timers, timerIds,
                   blurTimers, lastInput, lastSearch, settled, acRaised>>
    /\ UNCHANGED <<riVars, smVars, pc, argVars, runVars, histVars, uiVars>>

\* clear()
ACClear ==
    /\ inputValue' = <<>>
    /\ suggestions' = <<>>
    /\ Close
    /\ settled' = TRUE
    /\ UNCHANGED <<debounceTimer, items, timers, timerIds, blurTimers, lastInput,
                   lastSearch, acRaised>>
    /\ UNCHANGED <<riVars, smVars, pc, argVars, runVars, histVars, uiVars>>

-----------------------------------------------------------------------------
(* JourneyUI (js/journeyUI.js) *)

\* the path objects a caller hands to renderPaths, and the longest list
PathTokens == <<"p1", "p2", "p3">>
MaxShown == 3

PathLists == UNION {[1..n -> Range(PathTokens)] : n \in 0..MaxShown}

\* the argument of renderPaths: an array, or null / undefined (hasPaths FALSE)
RenderArgs ==
    {[hasPaths |-> TRUE, paths |-> l] : l \in PathLists}
    \cup {[hasPaths |-> FALSE, paths |-> <<>>]}

NoUICall == [op |-> "none", arg |-> [hasPaths |-> TRUE, paths |-> <<>>],
             outcome |-> "none"]

\* the state after new JourneyUI(container) on an empty container
NoJourney ==
    /\ currentPaths = <<>>
    /\ container = "blank"
    /\ uiCall = NoUICall

\* renderPaths(paths): the console.log line reads paths.length before the
\* !paths test, so null and undefined raise a TypeError
UIRenderPaths(arg) ==
    /\ IF ~arg.hasPaths
       THEN /\ uiCall' = [op |-> "renderPaths", arg |-> arg, outcome |-> "raised"]
            /\ UNCHANGED <<currentPaths, container>>
       ELSE /\ uiCall' = [op |-> "renderPaths", arg |-> arg, outcome |-> "returned"]
            /\ IF Len(arg.paths) = 0
               THEN \* showNoResults()
                    /\ container' = "noResults"
                    /\ UNCHANGED currentPaths
               ELSE /\ currentPaths' = arg.paths
                    /\ container' = "cards"
    /\ UNCHANGED <<riVars, smVars, pc, argVars, runVars, histVars, acVars>>

\* clear()
UIClear ==
    /\ container' = "blank"
    /\ currentPaths' = <<>>
    /\ uiCall' = [NoUICall EXCEPT !.op = "clear", !.outcome = "returned"]
    /\ UNCHANGED <<riVars, smVars, pc, argVars, runVars, histVars, acVars>>

\* getPaths()
getPaths == currentPaths

\* the widget and the JourneyUI as their constructors leave them
NoView == NoWidget /\ NoJourney

-----------------------------------------------------------------------------
(* The specification *)

\* no call of findAllPaths has started
NoCall ==
    /\ pc = "idle"
    /\ fromStopId = ""
    /\ toStopId = ""
    /\ maxTransfers = DefaultMaxTransfers
    /\ maxPaths = DefaultMaxPaths
    /\ maxDistance = DefaultMaxDistance
    /\ options = Options(Undefined, Undefined, Undefined, Undefined)
    /\ reaches = EmptyMap
    /\ queue = <<>>
    /\ visited = EmptyMap
    /\ paths = <<>>
    /\ iterations = 0
    /\ outcome = "none"
    /\ result = <<>>
    /\ timedOut = FALSE
    /\ dequeued = 0
    /\ firstCall = [outcome |-> "none", result |-> <<>>, timedOut |-> FALSE,
                    maxDistance |-> DefaultMaxDistance]

\* the state after construction of the three objects
Init ==
    /\ stopToRoutes = EmptyMap
    /\ routeData = EmptyMap
    /\ transferHubs = {}
    /\ riInitialized = FALSE
    /\ lastRoutes = <<>>
    /\ riSource = "none"
    /\ idToStop = EmptyMap
    /\ nameToIds = <<>>
    /\ smInitialized = FALSE
    /\ lastStops = <<>>
    /\ smCall = NoLookup
    /\ NoCall
    /\ NoView

Next ==
    \/ \E routesArray \in RouteArrays : RIInitialize(routesArray)
    \/ \E cachedData \in CachePool : RIImportFromCache(cachedData)
    \/ \E stopsData \in StopCatalogs : SMInitialize(stopsData)
    \/ \E from \in QueryIds, to \in QueryIds, opts \in OptionsPool :
            FindAllPaths(from, to, opts)
    \/ FindAllPathsAgain
    \/ LoopIteration
    \/ LoopTimeout
    \/ LoopExit

Spec == Init /\ [][Next]_vars

\* the dense catalog, loaded: RouteIndex.initialize(HubRouteArray) and
\* StopMatcher.initialize(HubCatalog) have run
InitCap ==
    /\ LET built == IndexRoutes([s2r |-> EmptyMap, rd |-> EmptyMap], HubRouteArray)
       IN  /\ stopToRoutes = built.s2r
           /\ routeData = built.rd
           /\ transferHubs = HubsOf(built.s2r)
    /\ riInitialized = TRUE
    /\ lastRoutes = HubRouteArray
    /\ riSource = "initialize"
    /\ LET loaded == LoadStops([stops |-> EmptyMap, names |-> <<>>], HubCatalog)
       IN  /\ idToStop = loaded.stops
           /\ nameToIds = loaded.names
    /\ smInitialized = TRUE
    /\ lastStops = HubCatalog
    /\ smCall = NoLookup
    /\ NoCall
    /\ NoView

\* searches over the dense catalog, the loop seen RunLength iterations at a time
NextCap ==
    \/ \E from \in QueryIds, to \in QueryIds, opts \in OptionsPool :
            FindAllPaths(from, to, opts)
    \/ LoopRun
    \/ LoopTimeout
    \/ LoopExit

SpecCap == InitCap /\ [][NextCap]_vars

\* a small catalog, loaded: RouteIndex.initialize([RouteX, RouteY, RouteZ])
\* and StopMatcher.initialize of the full stop catalog have run
InitOptions ==
    /\ LET built == IndexRoutes([s2r |-> EmptyMap, rd |-> EmptyMap],
                                <<RouteX, RouteY, RouteZ>>)
       IN  /\ stopToRoutes = built.s2r
           /\ routeData = built.rd
           /\ transferHubs = HubsOf(built.s2r)
    /\ riInitialized = TRUE
    /\ lastRoutes = <<RouteX, RouteY, RouteZ>>
    /\ riSource = "initialize"
    /\ \E c \in StopCatalogs :
           /\ Len(c) = 5
           /\ LET loaded == LoadStops([stops |-> EmptyMap, names |-> <<>>], c)
              IN  /\ idToStop = loaded.stops
                  /\ nameToIds = loaded.names
           /\ lastStops = c
    /\ smInitialized = TRUE
    /\ smCall = NoLookup
    /\ NoCall
    /\ NoView

\* searches whose options carry a maxDistance and an iteration budget, each
\* repeated with other values of maxDistance
NextOptions ==
    \/ \E from \in QueryIds, to \in QueryIds, opts \in WideOptionsPool :
            FindAllPaths(from, to, opts)
    \/ FindAllPathsOtherDistance
    \/ LoopIteration
    \/ LoopTimeout
    \/ LoopExit

SpecOptions == InitOptions /\ [][NextOptions]_vars

\* the Route Index alone: builds, imports and round trips through a snapshot
NextIndex ==
    \/ \E routesArray \in HubRouteArrays : RIInitialize(routesArray)
    \/ \E cachedData \in CachePool : RIImportFromCache(cachedData)
    \/ RIRoundTrip

SpecIndex == Init /\ [][NextIndex]_vars

\* the Stop Matcher alone: one load, then name lookups
NextMatcher ==
    \/ \E stopsData \in NameCatalogs : SMInitialize(stopsData)
    \/ \E query \in Queries : SMFindStopId(query)
    \/ \E query \in Queries, limit \in 1..MaxLimit : SMSearch(query, limit)

SpecMatcher == Init /\ [][NextMatcher]_vars

\* a catalog whose identifiers hold hyphens: stop "1-2" next to stop "1", and
\* the route key "2-T" next to the route key "T"
HyphenStops == <<"3", "1", "1-2", "5">>

HyphenCatalog == [i \in 1..Len(HyphenStops) |-> <<HyphenStops[i], StopRecord(HyphenStops[i])>>]

HyphenRoutes ==
    << Route("2-T", "", <<>>, "", <<"3", "1">>),
       Route("T", "", <<>>, "", <<"3", "1-2">>),
       Route("W", "", <<>>, "", <<"1-2", "5">>) >>

\* the hyphen catalog, loaded: RouteIndex.initialize(HyphenRoutes) and
\* StopMatcher.initialize(HyphenCatalog) have run
InitKeys ==
    /\ LET built == IndexRoutes([s2r |-> EmptyMap, rd |-> EmptyMap], HyphenRoutes)
       IN  /\ stopToRoutes = built.s2r
           /\ routeData = built.rd
           /\ transferHubs = HubsOf(built.s2r)
    /\ riInitialized = TRUE
    /\ lastRoutes = HyphenRoutes
    /\ riSource = "initialize"
    /\ LET loaded == LoadStops([stops |-> EmptyMap, names |-> <<>>], HyphenCatalog)
       IN  /\ idToStop = loaded.stops
           /\ nameToIds = loaded.names
    /\ smInitialized = TRUE
    /\ lastStops = HyphenCatalog
    /\ smCall = NoLookup
    /\ NoCall
    /\ NoView

\* searches between the stops of the hyphen catalog
NextKeys ==
    \/ \E from \in Range(HyphenStops), to \in Range(HyphenStops), opts \in OptionsPool :
            FindAllPaths(from, to, opts)
    \/ LoopIteration
    \/ LoopTimeout
    \/ LoopExit

SpecKeys == InitKeys /\ [][NextKeys]_vars

\* the Autocomplete on a page: the StopMatcher is loaded at some point, the
\* user types, moves, clicks and leaves, and the timeouts expire
NextWidget ==
    \/ SMInitialize(WidgetCatalog)
    \/ \E value \in InputTexts : OnInput(value)
    \/ DebounceTimeout
    \/ \E key \in Keys : OnKeyDown(key)
    \/ \E index \in 0..(DefaultMaxResults - 1) : OnMouseEnter(index)
    \/ OnFocus
    \/ OnBlur
    \/ BlurTimeout
    \/ \E index \in 0..(DefaultMaxResults - 1) : OnDropdownClick(index)
    \/ OnDocumentClick
    \/ ACClear

SpecWidget == Init /\ [][NextWidget]_vars

\* the JourneyUI alone: renderPaths and clear calls in any order
NextJourney ==
    \/ \E arg \in RenderArgs : UIRenderPaths(arg)
    \/ UIClear

SpecJourney == Init /\ [][NextJourney]_vars

-----------------------------------------------------------------------------
(* Properties *)

Returned == pc = "done" /\ outcome = "returned"

\* the lowest transfer count among the candidates of this call
MinTransfers(ps) ==
    CHOOSE t \in {ps[i].transferCount : i \in 1..Len(ps)} :
        \A i \in 1..Len(ps) : t <= ps[i].transferCount

\* the valid routes of the last initialize() derive pairwise distinct keys
KeysDistinct(routesArray) ==
    \A i, j \in 1..Len(routesArray) :
        (/\ i # j
         /\ ValidRoute(routesArray[i])
         /\ ValidRoute(routesArray[j]))
        => getRouteKey(routesArray[i]) # getRouteKey(routesArray[j])

AllStopIds == StopIds \cup {GhostStop} \cup DOMAIN stopToRoutes
AllRouteKeys == DOMAIN routeData \cup {"Q", "unknown"}
                \cup UNION {Range(stopToRoutes[s]) : s \in DOMAIN stopToRoutes}

\* C1: in every returned path, each leg boards where the previous leg alighted
C1_LegsChain ==
    Returned =>
        \A p \in 1..Len(result) : \A i \in 1..(Len(result[p].legs) - 1) :
            result[p].legs[i].alightStop = result[p].legs[i + 1].boardStop

C1_Witness ==
    /\ Returned
    /\ \E p \in 1..Len(result) : Len(result[p].legs) >= 3

\* C2: a returned path has one transfer less than legs, and every frontier
\* state has as many transfers as completed legs
C2_TransfersMatchLegs ==
    /\ \A p \in 1..Len(result) : result[p].transferCount = Len(result[p].legs) - 1
    /\ \A p \in 1..Len(paths) : paths[p].transferCount = Len(paths[p].legs) - 1
    /\ \A q \in 1..Len(queue) : queue[q].transferCount = Len(queue[q].legs)

C2_Witness ==
    /\ Returned
    /\ \E p \in 1..Len(result) : result[p].transferCount = 2
    /\ \E p \in 1..Len(result) : result[p].transferCount = 1

\* C3: no returned path and no frontier state exceeds maxTransfers; with
\* maxTransfers = 0 every returned path is a single leg
C3_TransferBudget ==
    /\ \A p \in 1..Len(result) : result[p].transferCount <= maxTransfers
    /\ \A q \in 1..Len(queue) : queue[q].transferCount <= maxTransfers
    /\ maxTransfers = 0 => \A p \in 1..Len(result) : Len(result[p].legs) = 1

\* a query whose budget is used up, where one more transfer was on offer
C3_Witness ==
    /\ Returned
    /\ maxTransfers = 1
    /\ \E p \in 1..Len(result) : result[p].transferCount = 1
    /\ \E k \in DOMAIN visited : visited[k] = 1

\* C4: a call with origin = destination, a loaded stop, returns the empty list
C4_SameStopEmpty ==
    (pc = "done" /\ fromStopId = toStopId /\ hasStop(fromStopId))
        => (outcome = "returned" /\ result = <<>>)

\* the stop is passed twice by an indexed route
C4_Witness ==
    /\ Returned
    /\ fromStopId = toStopId
    /\ hasStop(fromStopId)
    /\ \E k \in Range(getRoutes(fromStopId)) :
          /\ hasRouteData(k)
          /\ Cardinality({i \in 1..Len(routeData[k].stops) :
                             routeData[k].stops[i] = fromStopId}) >= 2

\* C5: a call with a missing or unloaded origin or destination returns the
\* empty list
C5_UnknownEmpty ==
    (pc = "done" /\ (\/ fromStopId = "" \/ toStopId = ""
                    \/ ~hasStop(fromStopId) \/ ~hasStop(toStopId)))
        => (outcome = "returned" /\ result = <<>>)

\* the unloaded origin is served by a stored route that leads to the destination
C5_Witness ==
    /\ Returned
    /\ smInitialized
    /\ ~hasStop(fromStopId)
    /\ hasStop(toStopId)
    /\ \E k \in Range(getRoutes(fromStopId)) :
          /\ hasRouteData(k)
          /\ Contains(getReachableStops(fromStopId, k), toStopId)

C7_TopHasMinTransfers ==
    (Returned /\ result # <<>>)
        => result[1].transferCount = MinTransfers(paths)

\* C8 as claimed: a repeated call returns what the first call returned
C8_SameResultAlways ==
    (pc = "done" /\ firstCall.outcome # "none")
        => (outcome = firstCall.outcome /\ result = firstCall.result)

\* C8 amended: a repeated call returns what the first call returned when the
\* time budget expired in neither
C8_SameResultWithoutTimeout ==
    (pc = "done" /\ firstCall.outcome # "none" /\ ~timedOut /\ ~firstCall.timedOut)
        => (outcome = firstCall.outcome /\ result = firstCall.result)

C8_Witness ==
    /\ pc = "done"
    /\ firstCall.outcome = "returned"
    /\ ~timedOut
    /\ ~firstCall.timedOut
    /\ Len(result) >= 2
    /\ result[1].score # result[2].score

\* C9: the loop dequeues at most MaxIterations states whatever the timing;
\* every step of the loop either leaves it or counts as many more iterations
\* as it dequeues states, so that the bounded counter is a variant and the
\* loop is left; the call then returns the ranking of the candidates recorded
C9_CapBoundsSearch ==
    /\ [](/\ dequeued <= MaxIterations
          /\ iterations <= MaxIterations
          /\ pc = "done" => (outcome = "returned" /\ result = rankPaths(paths, maxPaths)))
    /\ [][pc = "loop" =>
            \/ pc' = "done"
            \/ (iterations' > iterations
                /\ dequeued' - dequeued = iterations' - iterations)]_vars

\* the cap ended the search: no timeout, frontier not empty
C9_Witness ==
    /\ Returned
    /\ ~timedOut
    /\ dequeued = MaxIterations
    /\ Len(queue) > 0

\* C10 as claimed: after initialize, k serves s in the index exactly when the
\* stored route k has s in its sequence
C10_IndexMatchesCatalog ==
    riSource = "initialize" =>
        \A s \in AllStopIds, k \in AllRouteKeys :
            Contains(getRoutes(s), k)
                <=> (hasRouteData(k) /\ Contains(getRouteData(k).stops, s))

\* C10 amended: the stored route's stops are always indexed under its key, an
\* indexed key always has a stored route and an input route of that key with
\* the stop, and the equivalence holds when the valid input routes derive
\* pairwise distinct keys
C10_IndexMatchesCatalogDistinctKeys ==
    riSource = "initialize" =>
        \A s \in AllStopIds, k \in AllRouteKeys :
            /\ (hasRouteData(k) /\ Contains(getRouteData(k).stops, s))
                  => Contains(getRoutes(s), k)
            /\ Contains(getRoutes(s), k)
                  => /\ hasRouteData(k)
                     /\ \E i \in 1..Len(lastRoutes) :
                           /\ ValidRoute(lastRoutes[i])
                           /\ getRouteKey(lastRoutes[i]) = k
                           /\ Contains(lastRoutes[i].stops, s)
            /\ KeysDistinct(lastRoutes)
                  => (Contains(getRoutes(s), k)
                        <=> (hasRouteData(k) /\ Contains(getRouteData(k).stops, s)))

\* three distinct keys, two of them sharing a stop
C10_Witness ==
    /\ riSource = "initialize"
    /\ KeysDistinct(lastRoutes)
    /\ Cardinality(DOMAIN routeData) = 3
    /\ \E s \in DOMAIN stopToRoutes : Len(stopToRoutes[s]) >= 2

\* stops served by at least three distinct route keys
ServedByThree == {s \in DOMAIN stopToRoutes : Cardinality(Range(stopToRoutes[s])) >= 3}

\* C11: after initialize, the transfer hubs are exactly the stops served by at
\* least three distinct route keys, whatever hubs the index held before
C11_HubsAreThreeRouteStops ==
    riSource = "initialize" =>
        /\ transferHubs = ServedByThree
        /\ \A s \in AllStopIds : s \in transferHubs <=> Len(getRoutes(s)) >= 3

\* a build with a hub, and a stop served by two routes that is none
C11_Witness ==
    /\ riSource = "initialize"
    /\ "3" \in transferHubs
    /\ \E s \in DOMAIN stopToRoutes : Len(stopToRoutes[s]) = 2 /\ s \notin transferHubs

\* C12: importFromCache(exportForCache()) leaves getRoutes of every indexed
\* stop and the transfer-hub set as they were
C12_RoundTrip ==
    [][RIRoundTrip =>
          /\ \A s \in DOMAIN stopToRoutes :
                /\ s \in DOMAIN stopToRoutes'
                /\ stopToRoutes'[s] = stopToRoutes[s]
          /\ transferHubs' = transferHubs]_vars

\* a round trip of a built index with a hub
C12_Witness ==
    /\ riSource = "reimport"
    /\ DOMAIN routeData # {}
    /\ "3" \in transferHubs
    /\ Cardinality(DOMAIN stopToRoutes) >= 3

\* C13 as claimed: after importFromCache nothing of an earlier catalog is
\* observable; a snapshot carries no route objects, so getRouteData finds none
C13_ImportReplacesAll ==
    riSource = "import" => \A k \in AllRouteKeys : ~hasRouteData(k)

\* C14: an index without stop entries is not ready, and a call of
\* findAllPaths against it returns the empty list at once
C14_EmptyIndexNotReady ==
    DOMAIN stopToRoutes = {} =>
        /\ ~isReady
        /\ pc # "loop"
        /\ pc = "done" => (outcome = "returned" /\ result = <<>>)

\* a query between two loaded stops on an index emptied by an import, or
\* built from a list without a valid route
C14_Witness ==
    /\ DOMAIN stopToRoutes = {}
    /\ riInitialized
    /\ Returned
    /\ hasStop(fromStopId) /\ hasStop(toStopId) /\ fromStopId # toStopId
    /\ \/ riSource = "import" /\ DOMAIN routeData # {}
       \/ riSource = "initialize" /\ lastRoutes # <<>>

\* the identifiers registered under the key q, <<>> if q is no key
IdsUnder(q) ==
    IF NameAt(nameToIds, q) = 0 THEN <<>> ELSE nameToIds[NameAt(nameToIds, q)].ids

\* the ids of the earliest-inserted key among the positions hits
EarliestIds(hits) == nameToIds[CHOOSE i \in hits : \A j \in hits : i <= j].ids

\* the positions of the keys that equal q, start with q, contain q, and are
\* longer than 3 characters and contained in q
KeysEqual(q) == {i \in 1..Len(nameToIds) : nameToIds[i].name = q}
KeysStarting(q) == {i \in 1..Len(nameToIds) : startsWith(nameToIds[i].name, q)}
KeysContaining(q) == {i \in 1..Len(nameToIds) : includes(nameToIds[i].name, q)}
KeysWithin(q) ==
    {i \in 1..Len(nameToIds) : Len(nameToIds[i].name) > 3 /\ includes(q, nameToIds[i].name)}

\* the keys of the highest tier that has a hit
BestKeys(q) ==
    IF KeysEqual(q) # {} THEN KeysEqual(q)
    ELSE IF KeysStarting(q) # {} THEN KeysStarting(q)
    ELSE IF KeysContaining(q) # {} THEN KeysContaining(q)
    ELSE KeysWithin(q)

\* what the precedence cascade names for q; "" is not-found
CascadeResult(q) == IF BestKeys(q) = {} THEN "" ELSE EarliestIds(BestKeys(q))[1]

\* C15 as claimed: findStopId of the normalized English name of a loaded stop
\* returns an identifier of the list under that key, which holds the stop
C15_NameResolves ==
    smCall.op = "findStopId" =>
        \A id \in DOMAIN idToStop :
            normalize(idToStop[id].name_en) = smCall.query =>
                /\ smCall.found # ""
                /\ Contains(IdsUnder(smCall.query), smCall.found)
                /\ Contains(IdsUnder(smCall.query), id)

\* C16 as claimed: findStopId returns what the cascade names for the
\* normalized query, whatever the query
C16_CascadeAlways ==
    smCall.op = "findStopId" => smCall.found = CascadeResult(normalize(smCall.query))

\* C16 amended: a query that is missing or normalizes to the empty text is
\* not found; any other returns what the cascade names
C16_CascadeOnNonEmpty ==
    smCall.op = "findStopId" =>
        smCall.found = IF normalize(smCall.query) = <<>> THEN ""
                       ELSE CascadeResult(normalize(smCall.query))

\* a hit of the starts-with tier on a key inserted after a key that contains
\* the query
C16_Witness ==
    /\ smCall.op = "findStopId"
    /\ smCall.found # ""
    /\ LET q == normalize(smCall.query)
       IN  /\ KeysEqual(q) = {}
           /\ KeysStarting(q) # {}
           /\ \E i \in KeysContaining(q) : \A j \in KeysStarting(q) : i < j

\* the score of the best tier under which id matches q, 0 if it matches none
BestScore(id, q) ==
    IF \E i \in KeysEqual(q) : Contains(nameToIds[i].ids, id) THEN EXACT_MATCH
    ELSE IF \E i \in KeysStarting(q) : Contains(nameToIds[i].ids, id) THEN STARTS_WITH
    ELSE IF \E i \in KeysContaining(q) : Contains(nameToIds[i].ids, id) THEN CONTAINS
    ELSE IF Len(q) > 5 /\ \E i \in KeysWithin(q) : Contains(nameToIds[i].ids, id) THEN PARTIAL
    ELSE 0

ResultIds == {smCall.results[i].id : i \in 1..Len(smCall.results)}

\* C17: search returns at most limit stops, none twice, by non-increasing
\* matchScore, and no matching stop left out scores higher than a returned one
C17_SearchRanked ==
    smCall.op = "search" =>
        LET r == smCall.results
            q == normalize(smCall.query)
        IN  /\ Len(r) <= smCall.limit
            /\ \A i, j \in 1..Len(r) : i # j => r[i].id # r[j].id
            /\ \A i \in 1..(Len(r) - 1) : r[i].matchScore >= r[i + 1].matchScore
            /\ \A id \in DOMAIN idToStop \ ResultIds : \A i \in 1..Len(r) :
                    BestScore(id, q) <= r[i].matchScore

\* a full result of two scores that leaves a matching stop out
C17_Witness ==
    /\ smCall.op = "search"
    /\ Len(smCall.results) = smCall.limit
    /\ smCall.results[1].matchScore > smCall.results[Len(smCall.results)].matchScore
    /\ \E id \in DOMAIN idToStop \ ResultIds : BestScore(id, normalize(smCall.query)) > 0

\* the identifiers registered under some name key
IndexedIds == UNION {Range(nameToIds[i].ids) : i \in 1..Len(nameToIds)}

\* C18: a record without English name is loaded nowhere and found by no
\* lookup, and every other record of the catalog is loaded
C18_NamelessSkipped ==
    smInitialized =>
        \A e \in 1..Len(lastStops) :
            LET id == lastStops[e][1]
                stop == lastStops[e][2]
            IN  IF stop.name_en = <<>>
                THEN /\ ~hasStop(id)
                     /\ id \notin IndexedIds
                     /\ smCall.found # id
                     /\ id \notin ResultIds
                ELSE /\ hasStop(id)
                     /\ getStopById(id) = stop
                     /\ Contains(IdsUnder(normalize(stop.name_en)), id)

\* a search for the Myanmar name of the skipped record that finds the valid
\* records of the same catalog
C18_Witness ==
    /\ smInitialized
    /\ \E e \in 1..Len(lastStops) :
          lastStops[e][2].name_en = <<>> /\ lastStops[e][2].name_mm = <<"a", "b">>
    /\ smCall.op = "search"
    /\ normalize(smCall.query) = <<"a", "b">>
    /\ Len(smCall.results) >= 2

\* some stored route passes a and, later in its sequence, b
RideExists(a, b) ==
    \E k \in DOMAIN routeData :
        \E i, j \in 1..Len(routeData[k].stops) :
            i < j /\ routeData[k].stops[i] = a /\ routeData[k].stops[j] = b

\* the stops the stored routes name
RouteStops == UNION {Range(routeData[k].stops) : k \in DOMAIN routeData}

RECURSIVE ItineraryExists(_, _, _)
\* a forward-only itinerary of at most n rides leads from a to b
ItineraryExists(a, b, n) ==
    /\ n > 0
    /\ \/ RideExists(a, b)
       \/ \E mid \in RouteStops : RideExists(a, mid) /\ ItineraryExists(mid, b, n - 1)

Outranks(a, b) ==
    \/ a.score > b.score
    \/ a.score = b.score /\ a.transferCount < b.transferCount
    \/ a.score = b.score /\ a.transferCount = b.transferCount
                         /\ a.totalStops < b.totalStops

\* C20: the returned list holds at most maxPaths paths, none outranked by a
\* later one, and no candidate left out outranks a returned one
C20_RankedAndCut ==
    Returned =>
        /\ Len(result) <= maxPaths
        /\ \A i, j \in 1..Len(result) : i < j => ~Outranks(result[j], result[i])
        /\ \A i \in 1..Len(result) : Contains(ScoredPaths(paths), result[i])
        /\ Len(result) = (IF Len(paths) < maxPaths THEN Len(paths) ELSE maxPaths)
        /\ Len(result) < Len(paths) =>
               \A c \in 1..Len(paths) : \A i \in 1..Len(result) :
                   Contains(result, ScoredPaths(paths)[c])
                       \/ ~Outranks(ScoredPaths(paths)[c], result[i])

\* a cut result: two candidates of different score, one returned
C20_Witness ==
    /\ Returned
    /\ maxPaths = 1
    /\ Len(result) = 1
    /\ \E c \in 1..Len(paths) : ScoredPaths(paths)[c].score < result[1].score

\* the first non-empty entry of fields
FirstPresent(fields) ==
    fields[CHOOSE i \in 1..Len(fields) :
               /\ fields[i] # ""
               /\ \A j \in 1..(i - 1) : fields[j] = ""]

\* the valid routes of the last initialize() are stored, and indexed at each
\* of their stops, under keys[i] for the i-th route
StoredUnder(keys) ==
    /\ DOMAIN routeData =
           {keys[i] : i \in {j \in 1..Len(lastRoutes) : ValidRoute(lastRoutes[j])}}
    /\ \A i \in 1..Len(lastRoutes) :
           ValidRoute(lastRoutes[i]) =>
               \A s \in Range(lastRoutes[i].stops) : Contains(getRoutes(s), keys[i])

\* the key as claimed: route number, route identifier, file capture, "unknown"
KeyAsClaimed(route) ==
    FirstPresent(<<route.route_num, route.route_id, FileMatch(route.file), "unknown">>)

\* the key with the id field as a fourth source before the sentinel
KeyWithId(route) ==
    FirstPresent(<<route.route_num, route.route_id, FileMatch(route.file),
                   route.id, "unknown">>)

\* C21 as claimed: the key of a route is its route number, else its route
\* identifier, else what the file name yields, else "unknown", and no other
\* field has a say
C21_KeyPrecedence ==
    riSource = "initialize" =>
        StoredUnder([i \in 1..Len(lastRoutes) |-> KeyAsClaimed(lastRoutes[i])])

\* C21: the key of a route is its route number, else its route identifier,
\* else the capture of route<x>.json in its file name, else its id field,
\* else "unknown"
C21_KeyPrecedenceWithId ==
    riSource = "initialize" =>
        StoredUnder([i \in 1..Len(lastRoutes) |-> KeyWithId(lastRoutes[i])])

\* a build from a route with every key field set, a route keyed by its id and
\* a route without any key field
C21_Witness ==
    /\ riSource = "initialize"
    /\ Contains(lastRoutes, RouteM)
    /\ Contains(lastRoutes, RouteF)
    /\ Contains(lastRoutes, RouteN)
    /\ DOMAIN routeData = {"M", "F", "unknown"}
    /\ getRoutes("2") = <<"M", "unknown">>

\* C22 as claimed: every leg of a returned path boards and alights at two
\* positions of its route's stop sequence, the alight position after the board
\* position, and its stopCount is that index difference, so at least 1; loop
\* lines included
C22_LegsRideForward ==
    Returned =>
        \A p \in 1..Len(result) : \A l \in 1..Len(result[p].legs) :
            LET leg == result[p].legs[l]
                stops == getRouteData(leg.route).stops
            IN  /\ hasRouteData(leg.route)
                /\ leg.stopCount >= 1
                /\ \E i, j \in 1..Len(stops) :
                       /\ i < j
                       /\ stops[i] = leg.boardStop
                       /\ stops[j] = leg.alightStop
                       /\ leg.stopCount = j - i

\* the score of a path among the candidates ps, in thousandths, by the formula
\* of the claim with the maxima floored at 1
ClaimedScore(p, ps) ==
    LET maxT == SeqMax([i \in 1..Len(ps) |-> ps[i].transferCount], 1)
        maxS == SeqMax([i \in 1..Len(ps) |-> ps[i].totalStops], 1)
        maxD == SeqMax([i \in 1..Len(ps) |-> ps[i].totalDistance], 100)
    IN  RoundDiv(500 * (maxT - p.transferCount) * maxS * maxD
                 + 300 * (maxS - p.totalStops) * maxT * maxD
                 + 200 * (maxD - p.totalDistance) * maxT * maxS,
                 maxT * maxS * maxD)

\* C23 as claimed: the score of a returned path is the weighted sum of its
\* three criteria normalized by the maxima over all candidates of the query,
\* and lies between 0 and 1
C23_ScoreInRange ==
    Returned =>
        \A p \in 1..Len(result) :
            /\ result[p].score = ClaimedScore(result[p], paths)
            /\ result[p].score >= 0
            /\ result[p].score <= 1000

\* the legs of a path as (route, board stop, alight stop) triples
Itinerary(path) ==
    [l \in 1..Len(path.legs) |->
        <<path.legs[l].route, path.legs[l].boardStop, path.legs[l].alightStop>>]

\* C30 as claimed: no two returned paths have the same sequence of
\* (route, board stop, alight stop) legs
C30_PathsDistinct ==
    Returned =>
        \A p, q \in 1..Len(result) : p # q => Itinerary(result[p]) # Itinerary(result[q])

\* C24: every stop that search returns carries the score of the highest tier
\* under which one of its keys matches the normalized query: 100 for a key
\* equal to it, 80 for a key starting with it, 50 for a key containing it, 30
\* for a key of more than 3 characters within a query of more than 5
C24_BestTierScore ==
    smCall.op = "search" =>
        \A i \in 1..Len(smCall.results) :
            /\ smCall.results[i].matchScore = BestScore(smCall.results[i].id,
                                                        normalize(smCall.query))
            /\ smCall.results[i].matchScore \in {EXACT_MATCH, STARTS_WITH, CONTAINS, PARTIAL}

\* a search whose contains tier ran, added a stop, and met again a stop that
\* the exact tier had found
C24_Witness ==
    /\ smCall.op = "search"
    /\ LET q == normalize(smCall.query)
       IN  /\ \E i \in 1..Len(smCall.results) :
                  /\ smCall.results[i].matchScore = EXACT_MATCH
                  /\ \E k \in KeysContaining(q) :
                         Contains(nameToIds[k].ids, smCall.results[i].id)
           /\ \E i \in 1..Len(smCall.results) : smCall.results[i].matchScore = CONTAINS

\* the lowest of a non-empty set of numbers
Lowest(counts) == CHOOSE c \in counts : \A d \in counts : c <= d

Passes(routeKey, stopId) ==
    hasRouteData(routeKey) /\ Contains(getRouteData(routeKey).stops, stopId)

\* C26: in every returned path two consecutive legs ride different route
\* keys, and the stop where they meet is on the stored stop sequence of both
\* routes and lists the second route in the index (after a build, the first
\* one too)
C26_TransferChangesRoute ==
    Returned =>
        \A p \in 1..Len(result) : \A i \in 1..(Len(result[p].legs) - 1) :
            LET a == result[p].legs[i]
                b == result[p].legs[i + 1]
            IN  /\ a.route # b.route
                /\ Passes(a.route, a.alightStop)
                /\ Passes(b.route, a.alightStop)
                /\ Contains(getRoutes(a.alightStop), b.route)
                /\ riSource = "initialize" => Contains(getRoutes(a.alightStop), a.route)

\* a returned path of exactly two legs that meet at a stop served by three
\* route keys
C26_Witness ==
    /\ Returned
    /\ \E p \in 1..Len(result) :
           /\ Len(result[p].legs) = 2
           /\ Len(getRoutes(result[p].legs[1].alightStop)) >= 3

C28_BudgetFromOptions ==
    options.maxIterations # Undefined => dequeued <= options.maxIterations

\* C29 as claimed: whenever the index is ready, every route key that
\* getRoutes lists for a stop resolves to a route object
C29_ReadyIndexResolves ==
    isReady =>
        \A s \in DOMAIN stopToRoutes : \A i \in 1..Len(getRoutes(s)) :
            hasRouteData(getRoutes(s)[i])

\* a route key listed at stop a resolves to a route that passes a and, later
\* in its sequence, b
IndexedRide(a, b) ==
    \E x \in 1..Len(getRoutes(a)) :
        /\ hasRouteData(getRoutes(a)[x])
        /\ LET stops == getRouteData(getRoutes(a)[x]).stops
           IN  \E i, j \in 1..Len(stops) : i < j /\ stops[i] = a /\ stops[j] = b

RECURSIVE LoadedItinerary(_, _, _)
\* a forward-only itinerary of at most n rides leads from a to b and changes
\* routes at loaded stops only
LoadedItinerary(a, b, n) ==
    /\ n > 0
    /\ \/ IndexedRide(a, b)
       \/ \E mid \in RouteStops :
              /\ hasStop(mid)
              /\ IndexedRide(a, mid)
              /\ LoadedItinerary(mid, b, n - 1)

\* the least number of transfers of such an itinerary within the budget
MinFeasible(a, b) ==
    CHOOSE k \in 0..maxTransfers :
        /\ LoadedItinerary(a, b, k + 1)
        /\ \A j \in 0..(k - 1) : ~LoadedItinerary(a, b, j + 1)

\* C31 as claimed: if a forward-only itinerary within the transfer budget
\* exists between two different loaded stops, over the routes the index lists
\* and resolves, and the search ran to its end, a candidate with the least
\* feasible transfer count is recorded and the result is not empty
C31_FindsMinimumTransfers ==
    (/\ pc = "done"
     /\ ~timedOut
     /\ fromStopId # toStopId
     /\ hasStop(fromStopId) /\ hasStop(toStopId)
     /\ LoadedItinerary(fromStopId, toStopId, maxTransfers + 1))
    => /\ outcome = "returned"
       /\ result # <<>>
       /\ \E i \in 1..Len(paths) :
              paths[i].transferCount = MinFeasible(fromStopId, toStopId)

\* C34 as claimed: two different (stop, route key) pairs never share a
\* dominance key, so all states that reached one key reached the same pair
C34_VisitKeyInjective ==
    \A k \in DOMAIN reaches : \A e \in reaches[k], f \in reaches[k] :
        e.stop = f.stop /\ e.route = f.route

\* the dominance keys a search on the loaded catalogs can record
AllVisitKeys == {VisitKey(st, k) : st \in DOMAIN idToStop, k \in AllRouteKeys}

\* how many times a key can still pass the prune
PassesLeft(visitKey) ==
    IF visitKey \in DOMAIN visited THEN visited[visitKey] ELSE maxTransfers + 1

\* the most states one pass pushes: one to continue, one per route to transfer
MaxPushed == 1 + Cardinality(AllRouteKeys)

\* a measure of the work left: the frontier, and what the passes still
\* possible may add to it
WorkLeft ==
    Len(queue)
    + MaxPushed * SeqSum([v \in 1..(maxTransfers + 1) |->
                             Cardinality({k \in AllVisitKeys : PassesLeft(k) >= v})])

\* C32: the search ends by itself: no (stop, route) key passes the dominance
\* prune more than maxTransfers + 1 times, every iteration lowers a measure
\* of the work left that never falls below zero, and a search in which no
\* time budget expires returns with an empty frontier before the iteration cap
C32_SearchTerminates ==
    /\ [](/\ \A k \in DOMAIN reaches : \A e \in reaches[k] : e.pass <= maxTransfers + 1
          /\ DOMAIN visited \subseteq AllVisitKeys
          /\ WorkLeft >= 0
          /\ (Returned /\ ~timedOut) => (queue = <<>> /\ iterations < MaxIterations))
    /\ [][(pc = "loop" /\ pc' = "loop") => WorkLeft' < WorkLeft]_vars

\* a finished search on the loop line that came back to a stop it had left
C32_Witness ==
    /\ Returned
    /\ ~timedOut
    /\ queue = <<>>
    /\ dequeued >= 4
    /\ \E k \in DOMAIN reaches : \E e \in reaches[k] :
           e.pass = 0 /\ e.route = "Y" /\ e.stop = "1"

\* C33: every returned path boards its first leg at the origin and alights
\* its last leg at the destination of the call
C33_PathJoinsEndpoints ==
    Returned =>
        \A p \in 1..Len(result) :
            /\ Len(result[p].legs) >= 1
            /\ result[p].legs[1].boardStop = fromStopId
            /\ result[p].legs[Len(result[p].legs)].alightStop = toStopId

\* a returned path of one leg and a returned path of several legs
C33_Witness ==
    /\ Returned
    /\ \E p \in 1..Len(result) : Len(result[p].legs) = 1
    /\ \E p \in 1..Len(result) : Len(result[p].legs) >= 2

\* text has no space at either end, no two spaces in a row, and none of the
\* characters ( ) , . - /
IsClean(text) ==
    /\ \A i \in 1..Len(text) : ~IsPunct(text[i]) /\ text[i] # "\t"
    /\ text # <<>> => (text[1] # " " /\ text[Len(text)] # " ")
    /\ \A i \in 1..(Len(text) - 1) : ~(text[i] = " " /\ text[i + 1] = " ")

\* C35: normalize maps its own result to itself, and its result is clean: for
\* the query of every lookup and for every key of the name index
C35_NormalizeIdempotent ==
    /\ smCall.op # "none" =>
           /\ normalize(normalize(smCall.query)) = normalize(smCall.query)
           /\ IsClean(normalize(smCall.query))
    /\ \A i \in 1..Len(nameToIds) :
           /\ normalize(nameToIds[i].name) = nameToIds[i].name
           /\ IsClean(nameToIds[i].name)

\* a lookup whose query leaves two spaces in a row once its punctuation is
\* removed, against an index with a key that held punctuation
C35_Witness ==
    /\ smCall.op # "none"
    /\ smCall.query = <<"a", " ", "-", " ", "b">>
    /\ normalize(smCall.query) = <<"a", " ", "b">>
    /\ \E i \in 1..Len(nameToIds) : nameToIds[i].name = <<"a", "b", "c", "d", " ", "x">>

\* C36 as claimed: whenever the dropdown is open and a suggestion is
\* highlighted (selectedIndex >= 0), selectedIndex is an index of suggestions,
\* so that Enter selects an existing suggestion and no handler raises
C36_SelectedIndexInRange ==
    /\ (isOpen /\ selectedIndex >= 0) => selectedIndex < Len(suggestions)
    /\ ~acRaised

\* C37: at most one debounce timeout is pending at any time, and it is the
\* one debounceTimer names, scheduled for the trimmed value of the most recent
\* input event, which has at least minChars characters; every input event
\* cancels the timeouts that were pending before it; a search a timeout
\* executes is for the value of the most recent input event and has at least
\* minChars characters
C37_Debounced ==
    /\ [](/\ Cardinality(timers) <= 1
          /\ \A t \in timers :
                 /\ t.id = debounceTimer
                 /\ t.query = lastInput
                 /\ Len(t.query) >= DefaultMinChars
          /\ lastSearch.ran =>
                 /\ lastSearch.query = lastSearch.input
                 /\ Len(lastSearch.query) >= DefaultMinChars)
    /\ [][(\E value \in InputTexts : OnInput(value)) => timers \cap timers' = {}]_vars

\* three timeouts were scheduled, one of them has executed its search and one
\* is pending: an input event cancelled the third
C37_Witness ==
    /\ timerIds = 3
    /\ Cardinality(timers) = 1
    /\ lastSearch.ran
    /\ lastSearch.query # lastInput

\* C38 as claimed: after selectStop or clear the dropdown stays closed until
\* the next input or focus event
C38_StaysClosed == settled => ~isOpen

\* C39 as claimed: after any sequence of renderPaths and clear calls,
\* getPaths() is the argument of the most recent renderPaths call that
\* returned (the empty list when that call rendered the no-results view), and
\* the empty list after clear
C39_GetPathsIsLastRendered ==
    /\ (uiCall.op = "renderPaths" /\ uiCall.outcome = "returned")
           => getPaths = uiCall.arg.paths
    /\ uiCall.op = "clear" => getPaths = <<>>

====
